---- MODULE Spec2Model ----
(***************************************************************************)
(* A model of the workflow task engine of Zadig: the cronjob               *)
(* reconciliation (HandleCronjob / UpdateCronjob), the SQL job controller, *)
(* the key-value and repository merge helpers of the job compiler, and     *)
(* the job compiler itself (ToJobs / LintJob of the build, scanning and    *)
(* distribute-image jobs) with the distribute-image step controller.       *)
(* Further parts: the job executor, the step runner, the stage scheduler,  *)
(* the target image tag rule, the env resource sync schedulers of the cron *)
(* service, InitializeUser, and the log of a VM job.                       *)
(*                                                                         *)
(* Each subsystem has its own variables and its own specification; a       *)
(* specification leaves the variables of the other subsystems at their     *)
(* idle values.                                                            *)
(***************************************************************************)
EXTENDS Integers, Sequences, FiniteSets, TLC

VARIABLES
    cronColl,      \* the cronjob collection: ObjectID -> Cronjob record
    cronNextID,    \* the next ObjectID the collection hands out on Create
    msgQueue,      \* the MsgQueueCommon collection, in insertion order
    cronCall,      \* the last HandleCronjob call: its inputs and its outcome
    sqlText,       \* JobTaskSQLSpec.SQL, a sequence of characters
    sqlJob,        \* the JobTask of the SQL job: Status and Error
    sqlResults,    \* JobTaskSQLSpec.Results
    sqlPc,         \* where SQLJobCtl.Run stands
    sqlIdx,        \* the index of the loop over Results in ExecMySQLStatement
    sqlDB,         \* the database handle: "none", "open" or "closed"
    sqlExecLog,    \* what the database was asked to execute, in order
    sqlCleaned,    \* whether SQLJobCtl.Clean has been called
    kvInput,       \* renderKeyVals: the input key-values
    kvOrigin,      \* renderKeyVals: the template's key-values
    kvResp,        \* renderKeyVals: the list returned
    kvPc,          \* "start" before the call, "done" after it
    repoInput,     \* renderRepos: input; mergeRepos: customRepos
    repoOrigin,    \* renderRepos: origin; mergeRepos: templateRepos
    repoKvs,       \* renderRepos: kvs
    repoResp,      \* the list returned
    repoInputOut,  \* the input (custom) repos after the call
    repoOp,        \* "start" before the call, then the function called
    wfJobs,        \* the jobs of the workflow, in stage order
    wfPc,          \* "compile", "rejected", "run" or "failed"
    wfIdx,         \* the job being compiled, then the task being run
    lintCall,      \* the last LintJob call: the job and the error
    compCall,      \* the last ToJobs call: the job, the tasks and the error
    wfTasks,       \* the JobTasks of the workflow task
    globalContext, \* WorkflowTaskCtx: the outputs, by key
    ctxLog,        \* the writes and reads of globalContext, in order
    psCatalog,     \* the build module of the catalog, the project's services
    psConfig,      \* the build job's spec in the stored workflow
    psSpec,        \* the ServiceAndBuilds of the job's spec (BuildJob.spec)
    psJobs,        \* the jobs of the workflow of a distribute job, in stage order
    psHist,        \* the calls made on the job, each with the spec it left
    psPc,          \* the call made last
    exPc,          \* Execute: position (idle, run, after, deferred, returned)
    exProduced,    \* outputs the job's Run has written so far
    exRunErr,      \* runErr
    exAfterRun,    \* AfterRun was invoked, afterRunErr
    exBytes,       \* j.OutputsJsonBytes
    exErr,         \* err, read by the deferred function
    exCM,          \* the job context ConfigMap
    stSteps,       \* Steps of the JobTask the runner executes
    stHist,        \* per step, the statuses it has had (the last one is current)
    stLog,         \* the PreRun and Run calls the runner has made, in order
    stPc,          \* the runner: next (step to pick), running, done
    sgDef,         \* the workflow's stages: parallel flag and jobs with their ErrorPolicy
    sgJob,         \* per stage, the status of each JobTask
    sgStage,       \* the status of each StageTask
    sgStarted,     \* the JobTasks that were started, as <<stage, job>>
    tagSpec,       \* the spec of the from-job distribute job whose target tags are compiled
    tagTargets,    \* the targets of the referred job, tagged one by one
    tagIdx,        \* the number of targets the loop of ToJobs has handled
    tagPc,         \* where the compilation of the target tags stands
    envLast,       \* lastEnvResourceSchedulerData: the CreateTime of every known resource key
    envSchedulers, \* the keys of c.Schedulers
    envController, \* the keys of c.SchedulerController, the stop channels
    envMutex,      \* lastEnvResourceSchedulerDataRWMutex
    envPass,       \* the pass of UpsertEnvResourceSyncScheduler in progress or just over
    envPc,         \* where the pass stands
    iuUsers,       \* the users of the user service, by uid
    iuBindings,    \* the uids bound to the admin role
    iuPrivacy,     \* whether the privacy setting was written
    iuCall,        \* the InitializeUser call of every caller
    vmStatusKeys,  \* the ids of the jobs whose status key is set in the cache
    vmJobs,        \* the VM jobs: Status and LogFile
    vmCall         \* the last call of savaVMJobLog and its return

cronVars == <<cronColl, cronNextID, msgQueue, cronCall>>

sqlVars == <<sqlText, sqlJob, sqlResults, sqlPc, sqlIdx, sqlDB, sqlExecLog,
            sqlCleaned>>

kvVars == <<kvInput, kvOrigin, kvResp, kvPc>>

repoVars == <<repoInput, repoOrigin, repoKvs, repoResp, repoInputOut, repoOp>>

wfVars == <<wfJobs, wfPc, wfIdx, lintCall, compCall, wfTasks, globalContext, ctxLog>>

psVars == <<psCatalog, psConfig, psSpec, psJobs, psHist, psPc>>

exVars == <<exPc, exProduced, exRunErr, exAfterRun, exBytes, exErr, exCM>>

stVars == <<stSteps, stHist, stLog, stPc>>

sgVars == <<sgDef, sgJob, sgStage, sgStarted>>

tagVars == <<tagSpec, tagTargets, tagIdx, tagPc>>

envVars == <<envLast, envSchedulers, envController, envMutex, envPass, envPc>>

iuVars == <<iuUsers, iuBindings, iuPrivacy, iuCall>>

vmVars == <<vmStatusKeys, vmJobs, vmCall>>

vars == <<cronVars, sqlVars, kvVars, repoVars, wfVars, psVars, exVars, stVars, sgVars, tagVars, envVars, iuVars, vmVars>>

\* What the steps of one part of the program leave alone.
notCronVars == <<sqlVars, kvVars, repoVars, wfVars, psVars, exVars, stVars, sgVars, tagVars, envVars, iuVars, vmVars>>
notSqlVars == <<cronVars, kvVars, repoVars, wfVars, psVars, exVars, stVars, sgVars, tagVars, envVars, iuVars, vmVars>>
notKvVars == <<cronVars, sqlVars, repoVars, wfVars, psVars, exVars, stVars, sgVars, tagVars, envVars, iuVars, vmVars>>
notRepoVars == <<cronVars, sqlVars, kvVars, wfVars, psVars, exVars, stVars, sgVars, tagVars, envVars, iuVars, vmVars>>
notWfVars == <<cronVars, sqlVars, kvVars, repoVars, psVars, exVars, stVars, sgVars, tagVars, envVars, iuVars, vmVars>>
notPsVars == <<cronVars, sqlVars, kvVars, repoVars, wfVars, exVars, stVars, sgVars, tagVars, envVars, iuVars, vmVars>>
notExVars == <<cronVars, sqlVars, kvVars, repoVars, wfVars, psVars, stVars, sgVars, tagVars, envVars, iuVars, vmVars>>
notStVars == <<cronVars, sqlVars, kvVars, repoVars, wfVars, psVars, exVars, sgVars, tagVars, envVars, iuVars, vmVars>>
notSgVars == <<cronVars, sqlVars, kvVars, repoVars, wfVars, psVars, exVars, stVars, tagVars, envVars, iuVars, vmVars>>
notTagVars == <<cronVars, sqlVars, kvVars, repoVars, wfVars, psVars, exVars, stVars, sgVars, envVars, iuVars, vmVars>>
notEnvVars == <<cronVars, sqlVars, kvVars, repoVars, wfVars, psVars, exVars, stVars, sgVars, tagVars, iuVars, vmVars>>
notIuVars == <<cronVars, sqlVars, kvVars, repoVars, wfVars, psVars, exVars, stVars, sgVars, tagVars, envVars, vmVars>>
notVmVars == <<cronVars, sqlVars, kvVars, repoVars, wfVars, psVars, exVars, stVars, sgVars, tagVars, envVars, iuVars>>

(***************************************************************************)
(* Generic helpers.                                                        *)
(***************************************************************************)
Range(s) == {s[i] : i \in 1..Len(s)}

SeqsUpTo(S, n) == UNION {[1..k -> S] : k \in 0..n}

(***************************************************************************)
(* Cronjob reconciliation.                                                 *)
(***************************************************************************)
\* Bounds of the cron model.
MaxCronID == 3
MaxItems == 2

WorkflowNames == {"wf1", "wf2"}
CronExprs == {"c1", "c2"}
WorkflowCronjob == "workflow"
TopicCronjob == "cronjob"
TypeEnableCronjob == "enable"
TypeDisableCronjob == "disable"

\* The zero ObjectID: a schedule item that has never been stored.
ZeroID == 0

NoCall == [kind |-> "none"]

\* The collection's operations. The mongodb package is not among the
\* sources: List filters on the parent, Update sets the fields of the record
\* with the job's ID (nothing when there is none), Create stores the job
\* under a fresh ID, Delete removes the records of the ID list.
CronList(coll, parentName, parentType) ==
    {id \in DOMAIN coll : coll[id].Name = parentName /\ coll[id].Type = parentType}

CronCollUpdate(coll, id, job) ==
    IF id \in DOMAIN coll THEN [coll EXCEPT ![id] = job] ELSE coll

CronCollCreate(coll, id, job) ==
    [x \in DOMAIN coll \cup {id} |-> IF x = id THEN job ELSE coll[x]]

CronCollDelete(coll, idList) ==
    [x \in DOMAIN coll \ idList |-> coll[x]]

\* The Cronjob built from a schedule item (UpdateCronjob, lines 87-100).
CronJobOf(parentName, parentType, item) ==
    [Name |-> parentName, Type |-> parentType, Cron |-> item.Cron, Enabled |-> TRUE]

\* A loop round that updates an item in place but leaves its ID in idMap.
CronItemStepKeepsId(st, i, parentName, parentType, failAt) ==
    LET t == st.items[i]
        job == CronJobOf(parentName, parentType, t)
        callNo == st.calls + 1
    IN  IF failAt = callNo
        THEN [st EXCEPT !.calls = callNo, !.err = "store"]
        ELSE IF t.ID # ZeroID
             THEN [st EXCEPT !.calls = callNo,
                             !.coll = CronCollUpdate(st.coll, t.ID, job)]
             ELSE [st EXCEPT !.calls = callNo,
                             !.coll = CronCollCreate(st.coll, st.next, job),
                             !.next = st.next + 1,
                             !.items[i].ID = st.next]

\* One round of the loop over schedule.Items. st carries the collection, the
\* ID counter, idMap, the items (a created item gets its ID), the number of
\* store calls made and the error. The store call number failAt fails.
CronItemStep(st, i, parentName, parentType, failAt) ==
    LET t == st.items[i]
        job == CronJobOf(parentName, parentType, t)
        callNo == st.calls + 1
    IN  IF failAt = callNo
        THEN [st EXCEPT !.calls = callNo, !.err = "store"]
        ELSE IF t.ID # ZeroID
             THEN [st EXCEPT !.calls = callNo,
                             !.coll = CronCollUpdate(st.coll, t.ID, job),
                             !.idMap = st.idMap \ {t.ID}]
             ELSE [st EXCEPT !.calls = callNo,
                             !.coll = CronCollCreate(st.coll, st.next, job),
                             !.next = st.next + 1,
                             !.items[i].ID = st.next]

RECURSIVE CronItemLoop(_, _, _, _, _)
CronItemLoop(st, i, parentName, parentType, failAt) ==
    IF i > Len(st.items) \/ st.err # "" THEN st
    ELSE CronItemLoop(CronItemStep(st, i, parentName, parentType, failAt),
                      i + 1, parentName, parentType, failAt)

\* UpdateCronjob: the collection and the items afterwards, the delete list
\* (a set: it is built by ranging over a Go map, so its order is
\* unspecified) and the error. Store calls: 1 is List, 2..n+1 the items,
\* n+2 is Delete.
UpdateCronjob(coll, next, parentName, parentType, items, failAt) ==
    IF failAt = 1
    THEN [coll |-> coll, next |-> next, items |-> items, deleteList |-> {},
          calls |-> 1, err |-> "store"]
    ELSE LET st0 == [coll |-> coll, next |-> next, items |-> items,
                     idMap |-> CronList(coll, parentName, parentType),
                     calls |-> 1, err |-> ""]
             st == CronItemLoop(st0, 1, parentName, parentType, failAt)
         IN  IF st.err # ""
             THEN [coll |-> st.coll, next |-> st.next, items |-> st.items,
                   deleteList |-> {}, calls |-> st.calls, err |-> st.err]
             ELSE IF failAt = st.calls + 1
                  THEN [coll |-> st.coll, next |-> st.next, items |-> st.items,
                        deleteList |-> {}, calls |-> st.calls + 1, err |-> "store"]
                  ELSE [coll |-> CronCollDelete(st.coll, st.idMap),
                        next |-> st.next, items |-> st.items,
                        deleteList |-> st.idMap, calls |-> st.calls + 1, err |-> ""]

ScheduleItems ==
    SeqsUpTo([ID : 0..(cronNextID - 1), Cron : CronExprs], MaxItems)

NumCreates(items) == Cardinality({i \in 1..Len(items) : items[i].ID = ZeroID})

\* HandleCronjob with workflow.Schedules = nil: nothing is done.
HandleCronjobNoSchedule ==
    /\ cronCall = NoCall
    /\ UNCHANGED notCronVars
    /\ \E name \in WorkflowNames :
          cronCall' = [kind |-> "nil", name |-> name, pre |-> cronColl,
                       upd |-> "notcalled", published |-> FALSE, err |-> ""]
    /\ UNCHANGED <<cronColl, cronNextID, msgQueue>>

\* HandleCronjob with the schedule disabled: only the message is published.
HandleCronjobDisabled ==
    /\ cronCall = NoCall
    /\ UNCHANGED notCronVars
    /\ \E name \in WorkflowNames, queueFails \in BOOLEAN :
        LET payload == [Name |-> name, JobType |-> WorkflowCronjob,
                        Action |-> TypeDisableCronjob,
                        DeleteList |-> {}, JobList |-> <<>>]
        IN  /\ msgQueue' = IF queueFails THEN msgQueue
                           ELSE Append(msgQueue,
                                       [QueueType |-> TopicCronjob, Payload |-> payload])
            /\ cronCall' = [kind |-> "disabled", name |-> name, pre |-> cronColl,
                            upd |-> "notcalled", published |-> ~queueFails,
                            err |-> IF queueFails THEN "publish" ELSE ""]
            /\ UNCHANGED <<cronColl, cronNextID>>

\* HandleCronjob with the schedule enabled: UpdateCronjob, then the message.
\* failAt names the store call that fails (0: none); call n+3 is the
\* message queue's Create.
HandleCronjobEnabled ==
    /\ cronCall = NoCall
    /\ UNCHANGED notCronVars
    /\ \E name \in WorkflowNames, items \in ScheduleItems :
      \E failAt \in 0..(Len(items) + 3) :
        LET r == UpdateCronjob(cronColl, cronNextID, name, WorkflowCronjob, items, failAt)
            queueFails == failAt = Len(items) + 3
            payload == [Name |-> name, JobType |-> WorkflowCronjob,
                        Action |-> TypeEnableCronjob,
                        DeleteList |-> r.deleteList, JobList |-> r.items]
            published == r.err = "" /\ ~queueFails
        IN  /\ cronNextID + NumCreates(items) <= MaxCronID + 1
            /\ cronColl' = r.coll
            /\ cronNextID' = r.next
            /\ msgQueue' = IF published
                           THEN Append(msgQueue,
                                       [QueueType |-> TopicCronjob, Payload |-> payload])
                           ELSE msgQueue
            /\ cronCall' = [kind |-> "enabled", name |-> name, items |-> items,
                            pre |-> cronColl,
                            upd |-> IF r.err = "" THEN "ok" ELSE "err",
                            deleteList |-> r.deleteList, jobList |-> r.items,
                            published |-> published,
                            err |-> IF r.err # "" THEN "update"
                                    ELSE IF queueFails THEN "publish" ELSE ""]

\* The process that owns the cron ticking takes the oldest message.
ConsumeCronMsg ==
    /\ msgQueue # <<>>
    /\ UNCHANGED notCronVars
    /\ msgQueue' = Tail(msgQueue)
    /\ UNCHANGED <<cronColl, cronNextID, cronCall>>

\* The collections one reconciliation can find: records of the workflows
\* under IDs handed out so far (a deleted record's ID is never reused), and
\* an empty message queue.
CronStores(next) ==
    UNION {[D -> [Name : WorkflowNames, Type : {WorkflowCronjob},
                  Cron : {"c1"}, Enabled : {TRUE}]] : D \in SUBSET (1..(next - 1))}

(***************************************************************************)
(* The SQL job controller.                                                 *)
(***************************************************************************)
\* Bound of the SQL model: the length of the SQL text.
MaxSQLLen == 5

\* The characters of an SQL text: "a" and "b" stand for the text of a
\* statement (no semicolon, no white space in them).
SQLChars == {"a", "b", " ", ";"}

StatusRunning == "running"
StatusPassed == "passed"
StatusFailed == "failed"
SQLExecStatusNotExec == "not_exec"
SQLExecStatusSuccess == "success"
SQLExecStatusFailed == "failed"
DBInstanceTypes == {"mysql", "mariadb", "other"}

\* What the database may report as the rows a statement affected.
RowsValues == {0, 1}

\* strings.SplitAfter(s, ";"): the pieces of s, each ending with its ";".
RECURSIVE SplitAfter(_)
SplitAfter(s) ==
    IF \A i \in 1..Len(s) : s[i] # ";" THEN <<s>>
    ELSE LET k == CHOOSE i \in 1..Len(s) :
                      s[i] = ";" /\ \A j \in 1..(i - 1) : s[j] # ";"
         IN  <<SubSeq(s, 1, k)>> \o SplitAfter(SubSeq(s, k + 1, Len(s)))

\* strings.TrimSpace.
RECURSIVE TrimLeft(_)
TrimLeft(s) == IF s # <<>> /\ Head(s) = " " THEN TrimLeft(Tail(s)) ELSE s

RECURSIVE TrimRight(_)
TrimRight(s) ==
    IF s # <<>> /\ s[Len(s)] = " " THEN TrimRight(SubSeq(s, 1, Len(s) - 1)) ELSE s

TrimSpace(s) == TrimRight(TrimLeft(s))

\* A first loop that keeps the empty pieces as statements.
RECURSIVE AppendResultsKeepingEmpty(_, _)
AppendResultsKeepingEmpty(results, sqls) ==
    IF sqls = <<>> THEN results
    ELSE AppendResultsKeepingEmpty(
             Append(results, [SQL |-> TrimSpace(Head(sqls)),
                              Status |-> SQLExecStatusNotExec,
                              RowsAffected |-> 0]),
             Tail(sqls))

\* The first loop of ExecMySQLStatement: one result per non-empty piece,
\* appended to the results the spec already holds.
RECURSIVE AppendResults(_, _)
AppendResults(results, sqls) ==
    IF sqls = <<>> THEN results
    ELSE IF Head(sqls) = <<>> THEN AppendResults(results, Tail(sqls))
    ELSE AppendResults(
             Append(results, [SQL |-> TrimSpace(Head(sqls)),
                              Status |-> SQLExecStatusNotExec,
                              RowsAffected |-> 0]),
             Tail(sqls))

NoErr == [kind |-> "none"]

\* A round that marks a failed statement and lets the loop go on.
ExecRoundGoesOn(execResult, outcome, rows) ==
    IF outcome = "execErr"
    THEN [result |-> [execResult EXCEPT !.Status = SQLExecStatusFailed],
          err |-> NoErr]
    ELSE IF outcome = "rowsErr"
    THEN [result |-> [execResult EXCEPT !.Status = SQLExecStatusSuccess],
          err |-> [kind |-> "rows"]]
    ELSE [result |-> [execResult EXCEPT !.Status = SQLExecStatusSuccess,
                                        !.RowsAffected = rows],
          err |-> NoErr]

\* One round of the second loop: the result after db.Exec and
\* result.RowsAffected, and the error returned (NoErr: the loop goes on).
\* outcome is "ok", "execErr" or "rowsErr"; rows is what the database
\* reports.
ExecRound(execResult, outcome, rows) ==
    IF outcome = "execErr"
    THEN [result |-> [execResult EXCEPT !.Status = SQLExecStatusFailed],
          err |-> [kind |-> "exec", sql |-> execResult.SQL]]
    ELSE IF outcome = "rowsErr"
    THEN [result |-> [execResult EXCEPT !.Status = SQLExecStatusSuccess],
          err |-> [kind |-> "rows"]]
    ELSE [result |-> [execResult EXCEPT !.Status = SQLExecStatusSuccess,
                                        !.RowsAffected = rows],
          err |-> NoErr]

\* logError: the job is Failed and carries the message. (The function is
\* not among the sources.)
LogError(job, msg) == [job EXCEPT !.Status = StatusFailed, !.Error = msg]

\* A Run that reports Passed whatever ExecMySQLStatement returned.
RunAfterExecAlwaysPassed(job, err) == [job EXCEPT !.Status = StatusPassed]

\* Run, lines 75-83: what Run does with the error ExecMySQLStatement
\* returned: the error is logged, or the job is Passed.
RunAfterExec(job, err) ==
    IF err # NoErr THEN LogError(job, err)
    ELSE [job EXCEPT !.Status = StatusPassed]

\* A return of ExecMySQLStatement that leaves the handle as it is.
DeferredCloseSkipped(db) == db

\* ExecMySQLStatement, line 94: the deferred db.Close() runs at every
\* return after the handle was opened.
DeferredClose(db) == "closed"

\* Run, lines 62-63: the job is Running and the change is acknowledged.
SQLRunStart ==
    /\ sqlPc = "start"
    /\ UNCHANGED <<notSqlVars, sqlCleaned>>
    /\ sqlJob' = [sqlJob EXCEPT !.Status = StatusRunning]
    /\ sqlPc' = "find"
    /\ UNCHANGED <<sqlText, sqlResults, sqlIdx, sqlDB, sqlExecLog>>

\* Run, lines 65-81: the DB instance is looked up and its type decides.
SQLFindInstance ==
    /\ sqlPc = "find"
    /\ UNCHANGED <<notSqlVars, sqlCleaned>>
    /\ \E found \in BOOLEAN, type \in DBInstanceTypes :
          IF ~found
          THEN /\ sqlJob' = LogError(sqlJob, [kind |-> "find"])
               /\ sqlPc' = "done"
          ELSE IF type \in {"mysql", "mariadb"}
          THEN /\ sqlPc' = "open"
               /\ UNCHANGED sqlJob
          ELSE /\ sqlJob' = LogError(sqlJob, [kind |-> "invalid db type"])
               /\ sqlPc' = "done"
    /\ UNCHANGED <<sqlText, sqlResults, sqlIdx, sqlDB, sqlExecLog>>

\* ExecMySQLStatement, lines 90-108: the handle is opened and the results
\* are laid out; a failed open is returned to Run, which logs it.
SQLOpen ==
    /\ sqlPc = "open"
    /\ UNCHANGED <<notSqlVars, sqlCleaned>>
    /\ \E opened \in BOOLEAN :
          IF opened
          THEN /\ sqlDB' = "open"
               /\ sqlResults' = AppendResults(sqlResults, SplitAfter(sqlText))
               /\ sqlIdx' = 1
               /\ sqlPc' = "exec"
               /\ UNCHANGED sqlJob
          ELSE /\ sqlJob' = LogError(sqlJob, [kind |-> "connect"])
               /\ sqlPc' = "done"
               /\ UNCHANGED <<sqlDB, sqlResults, sqlIdx>>
    /\ UNCHANGED <<sqlText, sqlExecLog>>

\* ExecMySQLStatement, lines 110-125: one statement is executed. An error
\* ends the function (the deferred db.Close runs) and Run logs it.
SQLExecStatement ==
    /\ sqlPc = "exec"
    /\ UNCHANGED <<notSqlVars, sqlCleaned>>
    /\ sqlIdx <= Len(sqlResults)
    /\ \E outcome \in {"ok", "execErr", "rowsErr"}, rows \in RowsValues :
          LET r == ExecRound(sqlResults[sqlIdx], outcome, rows)
          IN  /\ outcome # "ok" => rows = 0
              /\ sqlExecLog' = Append(sqlExecLog,
                                      [SQL |-> sqlResults[sqlIdx].SQL,
                                       outcome |-> outcome, rows |-> rows])
              /\ sqlResults' = [sqlResults EXCEPT ![sqlIdx] = r.result]
              /\ IF r.err = NoErr
                 THEN /\ sqlIdx' = sqlIdx + 1
                      /\ UNCHANGED <<sqlJob, sqlPc, sqlDB>>
                 ELSE /\ sqlDB' = DeferredClose(sqlDB)
                      /\ sqlJob' = RunAfterExec(sqlJob, r.err)
                      /\ sqlPc' = "done"
                      /\ UNCHANGED sqlIdx
    /\ UNCHANGED sqlText

\* ExecMySQLStatement returns nil after the last statement (the deferred
\* db.Close runs) and Run, line 83, sets the job Passed.
SQLRunPassed ==
    /\ sqlPc = "exec"
    /\ UNCHANGED <<notSqlVars, sqlCleaned>>
    /\ sqlIdx > Len(sqlResults)
    /\ sqlDB' = DeferredClose(sqlDB)
    /\ sqlJob' = RunAfterExec(sqlJob, NoErr)
    /\ sqlPc' = "done"
    /\ UNCHANGED <<sqlText, sqlResults, sqlIdx, sqlExecLog>>

\* Clean, line 59: the body is empty. The job controller calls it after Run
\* has returned.
SQLClean ==
    /\ sqlPc = "done"
    /\ ~sqlCleaned
    /\ UNCHANGED notSqlVars
    /\ sqlCleaned' = TRUE
    /\ UNCHANGED <<sqlText, sqlJob, sqlResults, sqlPc, sqlIdx, sqlDB, sqlExecLog>>

SQLTexts == SeqsUpTo(SQLChars, MaxSQLLen)

(***************************************************************************)
(* renderKeyVals.                                                          *)
(***************************************************************************)
\* Bound of the key-value model: the length of the two lists.
MaxKVs == 2

\* The key-values of the template (origin) and of the input. The input may
\* carry keys the template does not have and other types and flags.
OriginKVs ==
    [Key : {"k1", "k2"}, Value : {"v0"}, Type : {"string", "choice"},
     IsCredential : BOOLEAN, ChoiceOption : {<<"v0", "v1">>}]

InputKVs ==
    [Key : {"k1", "k3"}, Value : {"v1", "v2"}, Type : {"string"},
     IsCredential : BOOLEAN, ChoiceOption : {<<>>}]

\* An inner loop that takes the type and the credential flag of the input
\* key-value along with its value.
RECURSIVE OverlayAll(_, _)
OverlayAll(item, input) ==
    IF input = <<>> THEN item
    ELSE OverlayAll(
             IF item.Key = Head(input).Key
             THEN [item EXCEPT !.Value = Head(input).Value,
                               !.IsCredential = Head(input).IsCredential,
                               !.Type = Head(input).Type]
             ELSE item,
             Tail(input))

\* The inner loop: the value of every input key-value with the key, the
\* last one winning.
RECURSIVE OverlayValues(_, _)
OverlayValues(item, input) ==
    IF input = <<>> THEN item
    ELSE OverlayValues(
             IF item.Key = Head(input).Key
             THEN [item EXCEPT !.Value = Head(input).Value]
             ELSE item,
             Tail(input))

RECURSIVE renderKeyVals(_, _)
renderKeyVals(input, origin) ==
    IF origin = <<>> THEN <<>>
    ELSE LET originKV == Head(origin)
             item == [Key |-> originKV.Key,
                      Value |-> originKV.Value,
                      Type |-> originKV.Type,
                      IsCredential |-> originKV.IsCredential,
                      ChoiceOption |-> originKV.ChoiceOption]
         IN  <<OverlayValues(item, input)>> \o renderKeyVals(input, Tail(origin))

RenderKeyVals ==
    /\ kvPc = "start"
    /\ UNCHANGED notKvVars
    /\ kvResp' = renderKeyVals(kvInput, kvOrigin)
    /\ kvPc' = "done"
    /\ UNCHANGED <<kvInput, kvOrigin>>

(***************************************************************************)
(* renderRepos and mergeRepos.                                             *)
(***************************************************************************)
\* Bound of the repository model: the length of the two lists.
MaxRepos == 2

\* The repositories of the canonical definition (origin, template) and of
\* the user input (custom). CheckoutPath is a sequence of path tokens; a
\* token "$k" is a reference to the variable k.
OriginRepos ==
    [Source : {"github"}, RepoOwner : {"o1"}, RepoNamespace : {"", "n1"},
     RepoName : {"r1", "r2"}, RemoteName : {"origin"}, CheckoutPath : {<<>>},
     Branch : {"main"}, Tag : {""}, PR : {0}, PRs : {<<>>},
     FilterRegexp : {""}, CodehostID : {1}]

InputRepos ==
    [Source : {"github", "gitlab"}, RepoOwner : {"o1", "o2"},
     RepoNamespace : {"", "n2"}, RepoName : {"r1"}, RemoteName : {""},
     CheckoutPath : {<<"$k1", "src">>}, Branch : {"dev"}, Tag : {"v1"},
     PR : {7}, PRs : {<<7>>}, FilterRegexp : {"^f"}, CodehostID : {2}]

RepoKVLists == {<<>>, <<[Key |-> "k1", Value |-> "w"]>>}

VarTokens == {"$k1", "$k2"}

VarName(tok) == IF tok = "$k1" THEN "k1" ELSE "k2"

\* renderEnv's mapper: the value of the first variable with the name, or
\* the reference as it was.
RECURSIVE Mapper(_, _)
Mapper(tok, kvs) ==
    IF kvs = <<>> THEN tok
    ELSE IF VarName(tok) = Head(kvs).Key THEN Head(kvs).Value
    ELSE Mapper(tok, Tail(kvs))

\* renderEnv: os.Expand maps every variable reference of the text.
renderEnv(data, kvs) ==
    [t \in 1..Len(data) |->
        IF data[t] \in VarTokens THEN Mapper(data[t], kvs) ELSE data[t]]

\* An inner loop step that matches the repos by their names alone.
RenderInputStepByName(st, i, j, origin, kvs) ==
    IF origin[i].RepoName = st.input[j].RepoName
    THEN LET rendered == [st.input[j] EXCEPT
                             !.CheckoutPath = renderEnv(@, kvs)]
             inputRepo == IF rendered.RemoteName = ""
                          THEN [rendered EXCEPT !.RemoteName = "origin"]
                          ELSE rendered
         IN  [input |-> [st.input EXCEPT ![j] = inputRepo],
              resp |-> [st.resp EXCEPT ![i] = [of |-> "input", at |-> j]]]
    ELSE st

\* renderRepos, the inner loop at input repo j for origin repo i. The input
\* repo itself is changed and resp[i] refers to it from then on.
RenderInputStep(st, i, j, origin, kvs) ==
    IF origin[i].RepoName = st.input[j].RepoName
       /\ origin[i].RepoOwner = st.input[j].RepoOwner
    THEN LET rendered == [st.input[j] EXCEPT
                             !.CheckoutPath = renderEnv(@, kvs)]
             inputRepo == IF rendered.RemoteName = ""
                          THEN [rendered EXCEPT !.RemoteName = "origin"]
                          ELSE rendered
         IN  [input |-> [st.input EXCEPT ![j] = inputRepo],
              resp |-> [st.resp EXCEPT ![i] = [of |-> "input", at |-> j]]]
    ELSE st

RECURSIVE RenderInputLoop(_, _, _, _, _)
RenderInputLoop(st, i, j, origin, kvs) ==
    IF j > Len(st.input) THEN st
    ELSE RenderInputLoop(RenderInputStep(st, i, j, origin, kvs), i, j + 1, origin, kvs)

RECURSIVE RenderOriginLoop(_, _, _, _)
RenderOriginLoop(st, i, origin, kvs) ==
    IF i > Len(origin) THEN st
    ELSE RenderOriginLoop(
             RenderInputLoop(
                 [st EXCEPT !.resp = Append(@, [of |-> "origin", at |-> i])],
                 i, 1, origin, kvs),
             i + 1, origin, kvs)

\* renderRepos: the list returned (its elements are the origin repos and
\* the input repos it refers to) and the input repos after the call.
renderRepos(input, origin, kvs) ==
    LET st == RenderOriginLoop([input |-> input, resp |-> <<>>], 1, origin, kvs)
    IN  [resp |-> [i \in 1..Len(st.resp) |->
                      IF st.resp[i].of = "origin" THEN origin[st.resp[i].at]
                      ELSE st.input[st.resp[i].at]],
         input |-> st.input]

\* mergeRepos, lines 932-935: the namespace of a repo defaults to its owner.
WithNamespace(repo) ==
    IF repo.RepoNamespace = "" THEN [repo EXCEPT !.RepoNamespace = repo.RepoOwner]
    ELSE repo

\* strings.Join([]string{Source, RepoNamespace, RepoName}, "/")
RepoKey(repo) == <<repo.Source, "/", repo.RepoNamespace, "/", repo.RepoName>>

\* mergeRepos, lines 938-951, for one template repo: the last custom repo
\* with the key gives the branch, tag, PR, PRs and filter.
MergeOne(repo, customs) ==
    LET r == WithNamespace(repo)
        hits == {j \in 1..Len(customs) : RepoKey(customs[j]) = RepoKey(r)}
    IN  IF hits = {} THEN r
        ELSE LET cv == customs[CHOOSE j \in hits : \A k \in hits : k <= j]
             IN  [r EXCEPT !.Branch = cv.Branch, !.Tag = cv.Tag, !.PR = cv.PR,
                           !.PRs = cv.PRs, !.FilterRegexp = cv.FilterRegexp]

mergeRepos(templateRepos, customRepos) ==
    LET customs == [j \in 1..Len(customRepos) |-> WithNamespace(customRepos[j])]
    IN  [resp |-> [i \in 1..Len(templateRepos) |-> MergeOne(templateRepos[i], customs)],
         input |-> customs]

RenderRepos ==
    /\ repoOp = "start"
    /\ UNCHANGED notRepoVars
    /\ LET r == renderRepos(repoInput, repoOrigin, repoKvs)
       IN  /\ repoResp' = r.resp
           /\ repoInputOut' = r.input
    /\ repoOp' = "render"
    /\ UNCHANGED <<repoInput, repoOrigin, repoKvs>>

MergeRepos ==
    /\ repoOp = "start"
    /\ UNCHANGED notRepoVars
    /\ LET r == mergeRepos(repoOrigin, repoInput)
       IN  /\ repoResp' = r.resp
           /\ repoInputOut' = r.input
    /\ repoOp' = "merge"
    /\ UNCHANGED <<repoInput, repoOrigin, repoKvs>>

(***************************************************************************)
(* The job compiler: ToJobs and LintJob of the build, image distribute and *)
(* scanning jobs, and the distribute step that runs a compiled job.        *)
(***************************************************************************)
\* Bounds of the compiler model: the jobs of a workflow and the targets
\* (services, scannings) of a job.
MaxJobs == 2
MaxTargets == 2

\* The job at position i of the workflow is named JobNames[i]; MissingJob
\* names no job.
JobNames == <<"j1", "j2", "j3">>
MissingJob == "jX"

RefNames == {JobNames[i] : i \in 1..MaxJobs} \cup {MissingJob}

JobZadigBuild == "zadig-build"
JobZadigDistributeImage == "zadig-distribute-image"
JobZadigDeploy == "zadig-deploy"
JobZadigScanning == "zadig-scanning"
JobFreestyle == "freestyle"
SourceRuntime == "runtime"
SourceFromJob == "fromjob"
NormalScanningType == "normal"
ServiceScanningType == "service"
IMAGEKEY == "IMAGE"

ServiceModules ==
    {[ServiceName |-> "svcA", ServiceModule |-> "modA"],
     [ServiceName |-> "svcB", ServiceModule |-> "modB"]}

TargetLists == SeqsUpTo(ServiceModules, MaxTargets)

ScanningNames == {"sc1", "sc2"}

ServiceScannings ==
    {[ServiceName |-> sm.ServiceName, ServiceModule |-> sm.ServiceModule,
      Name |-> "sc1"] : sm \in ServiceModules}

\* The specs of the jobs. Targets is ServiceAndBuilds of a build job,
\* Targets of a distribute job, TargetServices of a scanning job and the
\* service modules of a deploy job.
EmptySpec ==
    [JobType |-> JobFreestyle, Source |-> "", JobName |-> "", Targets |-> <<>>,
     ScanningType |-> "", Scannings |-> <<>>, ServiceAndScannings |-> <<>>,
     Timeout |-> 0]

BuildSpecs ==
    {[EmptySpec EXCEPT !.JobType = JobZadigBuild, !.Targets = ts] :
        ts \in TargetLists}

\* The timeout of a distribute job's spec, in minutes: 0 when it is left
\* unset.
SpecTimeouts == {0, 30}

DistributeSpecs ==
    {[EmptySpec EXCEPT !.JobType = JobZadigDistributeImage,
                       !.Source = SourceRuntime, !.Targets = ts,
                       !.Timeout = t] :
        ts \in TargetLists, t \in SpecTimeouts}
    \cup {[EmptySpec EXCEPT !.JobType = JobZadigDistributeImage,
                            !.Source = SourceFromJob, !.JobName = n,
                            !.Timeout = t] :
        n \in RefNames, t \in SpecTimeouts}

ScanningSources ==
    {[Source |-> SourceRuntime, JobName |-> ""]}
    \cup {[Source |-> SourceFromJob, JobName |-> n] : n \in RefNames}

ScanningSpecs ==
    {[EmptySpec EXCEPT !.JobType = JobZadigScanning,
                       !.ScanningType = NormalScanningType,
                       !.Source = src.Source, !.JobName = src.JobName,
                       !.Scannings = ss] :
        src \in ScanningSources, ss \in SeqsUpTo(ScanningNames, MaxTargets)}
    \cup {[EmptySpec EXCEPT !.JobType = JobZadigScanning,
                            !.ScanningType = ServiceScanningType,
                            !.Source = src.Source, !.JobName = src.JobName,
                            !.Targets = IF src.Source = SourceRuntime
                                        THEN <<[ServiceName |-> "svcA", ServiceModule |-> "modA"],
                                               [ServiceName |-> "svcB", ServiceModule |-> "modB"]>>
                                        ELSE <<>>,
                            !.ServiceAndScannings = ss] :
        src \in ScanningSources, ss \in SeqsUpTo(ServiceScannings, MaxTargets)}

DeploySpecs ==
    {[EmptySpec EXCEPT !.JobType = JobZadigDeploy,
                       !.Targets = <<[ServiceName |-> "svcA", ServiceModule |-> "modA"]>>]}

JobSpecs ==
    BuildSpecs \cup DistributeSpecs \cup ScanningSpecs \cup DeploySpecs \cup {EmptySpec}

\* The jobs of a workflow in stage order: the job at position i is in
\* stage stages[i], and stages never decreases.
StageLists(n) ==
    {st \in [1..n -> 1..n] :
        /\ n > 0 => st[1] = 1
        /\ \A i \in 1..(n - 1) : st[i + 1] \in {st[i], st[i] + 1}}

JobsOf(specs, stages) ==
    [i \in 1..Len(specs) |->
        [Name |-> JobNames[i], Stage |-> stages[i], Spec |-> specs[i]]]

Workflows ==
    UNION {{JobsOf(specs, stages) :
               specs \in [1..n -> JobSpecs], stages \in StageLists(n)} :
           n \in 1..MaxJobs}

\* strings.Join(parts, sep) and fmt.Sprintf("%s.%s.%s", a, b, c), on
\* sequences of tokens.
RECURSIVE Join(_, _)
Join(parts, sep) ==
    IF parts = <<>> THEN <<>>
    ELSE IF Len(parts) = 1 THEN <<Head(parts)>>
    ELSE <<Head(parts), sep>> \o Join(Tail(parts), sep)

SprintfDotted(a, b, c) == <<a, ".", b, ".", c>>

\* job.GetJobOutputKey(key, output): the reference to an output of a job.
\* (The function is not among the sources; the format is the one of
\* part_008:253.)
GetJobOutputKey(key, output) == <<"{{.job.">> \o key \o <<".output.", output, "}}">>

\* The position of the job with the name, 0 when there is none.
JobIndex(jobs, name) ==
    IF \E i \in 1..Len(jobs) : jobs[i].Name = name
    THEN CHOOSE i \in 1..Len(jobs) : jobs[i].Name = name
    ELSE 0

\* getOriginJobName: the job a chain of from-job references starts at.
\* (Not among the sources.)
RECURSIVE getOriginJobName(_, _, _)
getOriginJobName(jobs, jobName, fuel) ==
    LET i == JobIndex(jobs, jobName)
    IN  IF i = 0 \/ fuel = 0 THEN jobName
        ELSE IF jobs[i].Spec.JobType = JobZadigDistributeImage
                /\ jobs[i].Spec.Source = SourceFromJob
        THEN getOriginJobName(jobs, jobs[i].Spec.JobName, fuel - 1)
        ELSE jobName

\* getJobRankMap: the rank of a job is its position in stage order. (Not
\* among the sources.)
getJobRankMap(jobs) == [n \in {jobs[i].Name : i \in 1..Len(jobs)} |-> JobIndex(jobs, n)]

\* A key that names the module before the service.
DistributeKeyByModule(imageReferredJob, svc) ==
    GetJobOutputKey(SprintfDotted(imageReferredJob, svc.ServiceModule, svc.ServiceName),
                    IMAGEKEY)

\* getOriginReferredJobTargets, line 444: the key of the image of the
\* service module in the referred job.
DistributeKey(imageReferredJob, svc) ==
    GetJobOutputKey(SprintfDotted(imageReferredJob, svc.ServiceName, svc.ServiceModule),
                    IMAGEKEY)

\* ImageDistributeJob.getOriginReferredJobTargets. envFails: the lookup of
\* the deploy job's environment fails.
getOriginReferredJobTargets(jobs, serviceReferredJob, imageReferredJob, envFails) ==
    LET i == JobIndex(jobs, serviceReferredJob)
        found == /\ i # 0
                 /\ jobs[i].Spec.JobType \in
                        {JobZadigBuild, JobZadigDistributeImage, JobZadigDeploy}
    IN  IF ~found THEN [targets |-> <<>>, err |-> "referred service job not found"]
        ELSE IF jobs[i].Spec.JobType = JobZadigDeploy /\ envFails
        THEN [targets |-> <<>>, err |-> "failed to get deploy job env"]
        ELSE [targets |->
                 [k \in 1..Len(jobs[i].Spec.Targets) |->
                     [ServiceName |-> jobs[i].Spec.Targets[k].ServiceName,
                      ServiceModule |-> jobs[i].Spec.Targets[k].ServiceModule,
                      SourceImage |-> DistributeKey(imageReferredJob,
                                                    jobs[i].Spec.Targets[k])]],
              err |-> ""]

\* The default timeout of a distribute job, in minutes.
DistributeTimeout == 10

\* getTimeout.
getTimeout(timeout) == IF timeout = 0 THEN DistributeTimeout ELSE timeout

\* The timeout the build or scanning module of the catalog is configured
\* with (buildInfo.Timeout, scanningInfo.AdvancedSetting.Timeout), in
\* minutes.
CatalogTimeout == 60

\* getImage: the image of a runtime target in the source registry.
getImage(target) == <<"registry/", target.ServiceModule>>

\* ImageDistributeJob.ToJobs. failAt = 1: a registry lookup fails;
\* failAt = 2: the lookup of the deploy job's environment fails.
DistributeToJobs(jobs, job, failAt) ==
    IF failAt = 1 THEN [tasks |-> <<>>, err |-> "image registry not found"]
    ELSE LET r == IF job.Spec.Source = SourceFromJob
                  THEN getOriginReferredJobTargets(
                           jobs, getOriginJobName(jobs, job.Spec.JobName, MaxJobs),
                           job.Spec.JobName, failAt = 2)
                  ELSE [targets |->
                           [k \in 1..Len(job.Spec.Targets) |->
                               [ServiceName |-> job.Spec.Targets[k].ServiceName,
                                ServiceModule |-> job.Spec.Targets[k].ServiceModule,
                                SourceImage |-> getImage(job.Spec.Targets[k])]],
                        err |-> ""]
         IN  IF r.err # "" THEN [tasks |-> <<>>, err |-> r.err]
             ELSE [tasks |-> <<[Name |-> job.Name, Key |-> <<job.Name>>,
                                JobType |-> JobZadigDistributeImage,
                                FromJob |-> job.Spec.JobName,
                                Targets |-> r.targets,
                                Timeout |-> getTimeout(job.Spec.Timeout),
                                PropertiesTimeout |-> job.Spec.Timeout]>>,
                   err |-> ""]

\* ImageDistributeJob.LintJob.
DistributeLintJob(jobs, job) ==
    IF job.Spec.Source # SourceFromJob THEN ""
    ELSE LET jobRankMap == getJobRankMap(jobs)
             ok == job.Spec.JobName \in DOMAIN jobRankMap
         IN  IF ~ok \/ jobRankMap[job.Spec.JobName] >= jobRankMap[job.Name]
             THEN "can not quote job"
             ELSE ""

\* BuildJob.ToJobs: one task per service and build. failAt = 1: the lookup
\* of the registry or of the storage fails; failAt = k + 1: a lookup for
\* the k-th build fails.
RECURSIVE BuildLoop(_, _, _, _)
BuildLoop(job, k, failAt, resp) ==
    IF k > Len(job.Spec.Targets) THEN [tasks |-> resp, err |-> ""]
    ELSE IF failAt = k + 1 THEN [tasks |-> resp, err |-> "find build error"]
    ELSE LET build == job.Spec.Targets[k]
         IN  BuildLoop(job, k + 1, failAt,
                 Append(resp,
                     [Name |-> job.Name,
                      Key |-> Join(<<job.Name, build.ServiceName, build.ServiceModule>>, "."),
                      JobType |-> JobZadigBuild, FromJob |-> "",
                      Targets |-> <<build>>,
                      Timeout |-> CatalogTimeout,
                      PropertiesTimeout |-> CatalogTimeout]))

BuildToJobs(job, failAt) ==
    IF failAt = 1 THEN [tasks |-> <<>>, err |-> "find docker registry error"]
    ELSE BuildLoop(job, 1, failAt, <<>>)

\* BuildJob.LintJob.
BuildLintJob(job) == ""

\* ScanningJob.getOriginReferedJobTargets.
getOriginReferedJobTargets(jobs, jobName) ==
    LET i == JobIndex(jobs, jobName)
    IN  IF i # 0 /\ jobs[i].Spec.JobType \in
                       {JobZadigBuild, JobZadigDistributeImage,
                        JobZadigDeploy, JobZadigScanning}
        THEN [targets |-> jobs[i].Spec.Targets, err |-> ""]
        ELSE [targets |-> <<>>, err |-> "build job not found"]

\* ScanningJob.toJobTask.
toJobTask(job, scanningName, scanningType, serviceName, serviceModule) ==
    [Name |-> job.Name,
     Key |-> IF scanningType = ServiceScanningType
             THEN Join(<<job.Name, scanningName, serviceName, serviceModule>>, ".")
             ELSE Join(<<job.Name, scanningName>>, "."),
     JobType |-> JobZadigScanning, FromJob |-> "",
     Targets |-> <<>>,
     Timeout |-> CatalogTimeout, PropertiesTimeout |-> CatalogTimeout]

\* ScanningJob.ToJobs, lines 266-274. The k-th call of toJobTask fails when
\* failAt = k.
RECURSIVE NormalLoop(_, _, _, _)
NormalLoop(job, k, failAt, resp) ==
    IF k > Len(job.Spec.Scannings) THEN [tasks |-> resp, err |-> "", calls |-> k - 1]
    ELSE IF failAt = k THEN [tasks |-> <<>>, err |-> "find scanning error", calls |-> k]
    ELSE NormalLoop(job, k + 1, failAt,
             Append(resp, toJobTask(job, job.Spec.Scannings[k], NormalScanningType, "", "")))

\* ScanningJob.ToJobs, lines 290-303, over the pairs (target, scanning) in
\* the order of the two loops; calls counts the calls of toJobTask so far.
RECURSIVE ServiceLoop(_, _, _, _, _, _)
ServiceLoop(job, targets, p, failAt, calls, resp) ==
    LET n == Len(job.Spec.ServiceAndScannings)
    IN  IF n = 0 \/ p > Len(targets) * n THEN [tasks |-> resp, err |-> ""]
        ELSE LET target == targets[((p - 1) \div n) + 1]
                 scanning == job.Spec.ServiceAndScannings[((p - 1) % n) + 1]
             IN  IF scanning.ServiceName # target.ServiceName
                    \/ scanning.ServiceModule # target.ServiceModule
                 THEN ServiceLoop(job, targets, p + 1, failAt, calls, resp)
                 ELSE IF failAt = calls + 1
                 THEN [tasks |-> resp, err |-> "find scanning error"]
                 ELSE ServiceLoop(job, targets, p + 1, failAt, calls + 1,
                          Append(resp, toJobTask(job, scanning.Name, ServiceScanningType,
                                                 scanning.ServiceName,
                                                 scanning.ServiceModule)))

ScanningToJobs(jobs, job, failAt) ==
    LET normal == IF job.Spec.ScanningType = NormalScanningType
                  THEN NormalLoop(job, 1, failAt, <<>>)
                  ELSE [tasks |-> <<>>, err |-> "", calls |-> 0]
        origin == IF job.Spec.Source = SourceFromJob
                  THEN getOriginReferedJobTargets(jobs, job.Spec.JobName)
                  ELSE [targets |-> job.Spec.Targets, err |-> ""]
    IN  IF normal.err # "" THEN [tasks |-> <<>>, err |-> normal.err]
        ELSE IF origin.err # ""
        THEN [tasks |-> normal.tasks, err |-> "get origin refered job targets failed"]
        ELSE IF job.Spec.ScanningType = ServiceScanningType
        THEN ServiceLoop(job, origin.targets, 1, failAt, normal.calls, normal.tasks)
        ELSE [tasks |-> normal.tasks, err |-> ""]

\* ScanningJob.LintJob.
ScanningLintJob(job) == ""

\* ToJobs and LintJob of the other job types, which are not among the
\* sources: one task named after the job, and no lint error.
OtherToJobs(job) ==
    [tasks |-> <<[Name |-> job.Name, Key |-> <<job.Name>>,
                  JobType |-> job.Spec.JobType, FromJob |-> "",
                  Targets |-> <<>>,
                  Timeout |-> CatalogTimeout,
                  PropertiesTimeout |-> CatalogTimeout]>>,
     err |-> ""]

ToJobs(jobs, job, failAt) ==
    IF job.Spec.JobType = JobZadigBuild THEN BuildToJobs(job, failAt)
    ELSE IF job.Spec.JobType = JobZadigDistributeImage
    THEN DistributeToJobs(jobs, job, failAt)
    ELSE IF job.Spec.JobType = JobZadigScanning THEN ScanningToJobs(jobs, job, failAt)
    ELSE OtherToJobs(job)

LintJob(jobs, job) ==
    IF job.Spec.JobType = JobZadigBuild THEN BuildLintJob(job)
    ELSE IF job.Spec.JobType = JobZadigDistributeImage THEN DistributeLintJob(jobs, job)
    ELSE IF job.Spec.JobType = JobZadigScanning THEN ScanningLintJob(job)
    ELSE ""

\* The outputs the build or scanning module of the catalog declares.
ModuleOutputs == {"VERSION"}

\* ensureBuildInOutputs: the built-in outputs are added when missing.
ensureBuildInOutputs(outputs) == outputs \cup {IMAGEKEY, "IMAGETAGKEY", "PKGFILEKEY"}

\* ensureScanningOutputs.
ensureScanningOutputs(outputs) ==
    outputs \cup {"WorkflowScanningJobOutputKey", "WorkflowScanningJobOutputKeyProject"}

\* getOutputKey: the reference to each output under the job key. (Not among
\* the sources.)
getOutputKey(jobKey, outputs) == {GetJobOutputKey(jobKey, o) : o \in outputs}

\* JobTask.Outputs as BuildJob.ToJobs and ScanningJob.toJobTask set it.
DeclaredOutputs(task) ==
    IF task.JobType = JobZadigBuild THEN ensureBuildInOutputs(ModuleOutputs)
    ELSE IF task.JobType = JobZadigScanning THEN ensureScanningOutputs(ModuleOutputs)
    ELSE {}

\* BuildJob.GetOutPuts, as a set of keys.
BuildGetOutPuts(job) ==
    UNION {getOutputKey(Join(<<job.Name, build.ServiceName, build.ServiceModule>>, "."),
                        ensureBuildInOutputs(ModuleOutputs)) :
           build \in Range(job.Spec.Targets)}

\* ScanningColl.List with ScanningNames: the scannings of the catalog with
\* one of the names; listAll: an empty name list selects every scanning.
\* (Not among the sources.)
ScanningList(names, listAll) == IF names = {} /\ listAll THEN ScanningNames ELSE names

\* ScanningJob.GetOutPuts, lines 328-339: jobKey of one scanningInfo. For
\* the service scanning type the loops over TargetServices and
\* ServiceAndScannings assign jobKey at every matching pair; the last one
\* stays.
ScanningJobKey(job, infoName) ==
    LET n == Len(job.Spec.ServiceAndScannings)
        matching == {p \in 1..(Len(job.Spec.Targets) * n) :
                        LET target == job.Spec.Targets[((p - 1) \div n) + 1]
                            scanning == job.Spec.ServiceAndScannings[((p - 1) % n) + 1]
                        IN  /\ scanning.ServiceName = target.ServiceName
                            /\ scanning.ServiceModule = target.ServiceModule}
    IN  IF job.Spec.ScanningType = ServiceScanningType /\ matching # {}
        THEN LET p == CHOOSE q \in matching : \A r \in matching : r <= q
                 target == job.Spec.Targets[((p - 1) \div n) + 1]
                 scanning == job.Spec.ServiceAndScannings[((p - 1) % n) + 1]
             IN  Join(<<job.Name, scanning.Name, target.ServiceName, target.ServiceModule>>, ".")
        ELSE Join(<<job.Name, infoName>>, ".")

\* ScanningJob.GetOutPuts, as a set of keys.
ScanningGetOutPuts(job, listAll) ==
    UNION {getOutputKey(ScanningJobKey(job, name), ensureScanningOutputs(ModuleOutputs)) :
           name \in ScanningList(Range(job.Spec.Scannings), listAll)}

\* GetOutPuts of the build and the scanning job.
GetOutPuts(job, listAll) ==
    IF job.Spec.JobType = JobZadigBuild THEN BuildGetOutPuts(job)
    ELSE IF job.Spec.JobType = JobZadigScanning THEN ScanningGetOutPuts(job, listAll)
    ELSE {}

\* The lookups one ToJobs makes that may fail.
FailPoints(job) == 0..(Len(job.Spec.Targets) + Len(job.Spec.Scannings)
                        + Len(job.Spec.ServiceAndScannings) + 1)

NoCompile == [job |-> "", tasks |-> <<>>, err |-> "", outputs |-> {}]
NoLint == [job |-> "", err |-> ""]

\* LintJob of one job of the workflow, before the workflow is compiled.
LintOneJob ==
    /\ wfPc = "compile"
    /\ wfIdx = 1
    /\ UNCHANGED notWfVars
    /\ lintCall = NoLint
    /\ \E i \in 1..Len(wfJobs) :
          lintCall' = [job |-> wfJobs[i].Name, err |-> LintJob(wfJobs, wfJobs[i])]
    /\ UNCHANGED <<wfJobs, wfPc, wfIdx, compCall, wfTasks, globalContext, ctxLog>>

\* The jobs are compiled in stage order; an error ends the compilation and
\* no task is created. The call record also holds what GetOutPuts returns
\* for the job's spec.
CompileNextJob ==
    /\ wfPc = "compile"
    /\ UNCHANGED notWfVars
    /\ \E failAt \in FailPoints(wfJobs[wfIdx]), listAll \in BOOLEAN :
          LET r == ToJobs(wfJobs, wfJobs[wfIdx], failAt)
          IN  /\ compCall' = [job |-> wfJobs[wfIdx].Name, tasks |-> r.tasks,
                              err |-> r.err,
                              outputs |-> GetOutPuts(wfJobs[wfIdx], listAll)]
              /\ IF r.err # ""
                 THEN /\ wfPc' = "rejected"
                      /\ UNCHANGED <<wfIdx, wfTasks>>
                 ELSE /\ wfTasks' = wfTasks \o r.tasks
                      /\ IF wfIdx = Len(wfJobs)
                         THEN wfPc' = "run" /\ wfIdx' = 1
                         ELSE wfPc' = "compile" /\ wfIdx' = wfIdx + 1
    /\ UNCHANGED <<wfJobs, lintCall, globalContext, ctxLog>>

\* WorkflowTaskCtx.GlobalContextSet. (Not among the sources.)
GlobalContextSet(ctx, key, value) ==
    [k \in DOMAIN ctx \cup {key} |-> IF k = key THEN value ELSE ctx[k]]

\* The rendering of a reference before a job runs: the value under the
\* key, or the text as it is. (Not among the sources.)
RenderRef(ctx, text) == IF text \in DOMAIN ctx THEN ctx[text] ELSE text

\* DistributeTaskTarget.SetTargetImage: the image in the target registry.
\* (Not among the sources.)
SetTargetImage(jobName, target) ==
    <<"target-registry/", jobName, "/", target.ServiceName, "/", target.ServiceModule>>

\* The key distributeImageCtl.AfterRun writes a target's image under.
AfterRunKey(jobName, target) ==
    GetJobOutputKey(Join(<<jobName, target.ServiceName, target.ServiceModule>>, "."),
                    "IMAGE")

\* distributeImageCtl.AfterRun: every target's image goes to the context.
\* The log names the writing task by its position among the compiled tasks.
RECURSIVE AfterRunLoop(_, _, _, _)
AfterRunLoop(jobName, targets, k, st) ==
    IF k > Len(targets) THEN st
    ELSE LET key == AfterRunKey(jobName, targets[k])
             value == targets[k].TargetImage
         IN  AfterRunLoop(jobName, targets, k + 1,
                 [ctx |-> GlobalContextSet(st.ctx, key, value),
                  log |-> Append(st.log,
                              [op |-> "write", job |-> jobName, from |-> "",
                               task |-> wfIdx,
                               ServiceName |-> targets[k].ServiceName,
                               ServiceModule |-> targets[k].ServiceModule,
                               key |-> key, value |-> value])])

\* The distribute job at wfIdx runs: its references are rendered, PreRun
\* checks the source images and sets the target images, and AfterRun
\* publishes them. stepFails: the step fails between PreRun and AfterRun.
RunDistributeTask ==
    /\ wfPc = "run"
    /\ wfIdx <= Len(wfTasks)
    /\ wfTasks[wfIdx].JobType = JobZadigDistributeImage
    /\ UNCHANGED notWfVars
    /\ \E stepFails \in BOOLEAN :
          LET task == wfTasks[wfIdx]
              rendered == [k \in 1..Len(task.Targets) |->
                              [ServiceName |-> task.Targets[k].ServiceName,
                               ServiceModule |-> task.Targets[k].ServiceModule,
                               SourceImage |-> RenderRef(globalContext,
                                                         task.Targets[k].SourceImage),
                               TargetImage |-> SetTargetImage(task.Name, task.Targets[k])]]
              reads == [k \in 1..Len(task.Targets) |->
                           [op |-> "read", job |-> task.Name, from |-> task.FromJob,
                            ServiceName |-> rendered[k].ServiceName,
                            ServiceModule |-> rendered[k].ServiceModule,
                            key |-> task.Targets[k].SourceImage,
                            value |-> rendered[k].SourceImage]]
              preRunErr == \E k \in 1..Len(rendered) : rendered[k].SourceImage = <<>>
              after == AfterRunLoop(task.Name, rendered, 1,
                                    [ctx |-> globalContext, log |-> ctxLog \o reads])
          IN  IF preRunErr \/ stepFails
              THEN /\ wfPc' = "failed"
                   /\ ctxLog' = ctxLog \o reads
                   /\ UNCHANGED <<wfIdx, globalContext>>
              ELSE /\ globalContext' = after.ctx
                   /\ ctxLog' = after.log
                   /\ wfIdx' = wfIdx + 1
                   /\ UNCHANGED wfPc
    /\ UNCHANGED <<wfJobs, lintCall, compCall, wfTasks>>

\* A build job runs and its image is published under the key of its task.
\* (The controller of the build job is not among the sources.)
RunBuildTask ==
    /\ wfPc = "run"
    /\ wfIdx <= Len(wfTasks)
    /\ wfTasks[wfIdx].JobType = JobZadigBuild
    /\ UNCHANGED notWfVars
    /\ LET task == wfTasks[wfIdx]
           key == GetJobOutputKey(task.Key, IMAGEKEY)
           value == <<"registry/", task.Name, "/", task.Targets[1].ServiceModule>>
       IN  /\ globalContext' = GlobalContextSet(globalContext, key, value)
           /\ ctxLog' = Append(ctxLog,
                               [op |-> "write", job |-> task.Name, from |-> "",
                                task |-> wfIdx,
                                ServiceName |-> task.Targets[1].ServiceName,
                                ServiceModule |-> task.Targets[1].ServiceModule,
                                key |-> key, value |-> value])
    /\ wfIdx' = wfIdx + 1
    /\ UNCHANGED <<wfJobs, wfPc, lintCall, compCall, wfTasks>>

\* A job of another type runs; it publishes nothing the model follows.
RunOtherTask ==
    /\ wfPc = "run"
    /\ wfIdx <= Len(wfTasks)
    /\ wfTasks[wfIdx].JobType \notin {JobZadigBuild, JobZadigDistributeImage}
    /\ UNCHANGED notWfVars
    /\ wfIdx' = wfIdx + 1
    /\ UNCHANGED <<wfJobs, wfPc, lintCall, compCall, wfTasks, globalContext, ctxLog>>

(***************************************************************************)
(* SetPreset, MergeArgs and UpdateWithLatestSetting of the build job, and  *)
(* SetPreset of the image distribute job.                                  *)
(***************************************************************************)
\* Bounds of the preset model: the builds of a job's spec, and the repos
\* and the environment variables of the catalog's build module.
MaxBuilds == 2
MaxCatalog == 2

PsKV(k, v) ==
    [Key |-> k, Value |-> v, Type |-> "string", IsCredential |-> FALSE,
     ChoiceOption |-> <<>>]

PsRepo(name, branch) ==
    [Source |-> "github", RepoOwner |-> "o1", RepoNamespace |-> "",
     RepoName |-> name, Branch |-> branch, Tag |-> "", PR |-> 0, PRs |-> <<>>,
     FilterRegexp |-> ""]

\* The build module "b1" of the catalog (commonrepo.NewBuildColl().Find)
\* and the services of the project (GetMaxRevisionsServicesMap). The module
\* has no template (TemplateID is empty, fillBuildDetail returns at once)
\* and its target is the service module svcA/modA. Nothing stops a module
\* from naming a repository or a variable twice.
PsCatalogs ==
    {[Found |-> TRUE, Repos |-> rs, Envs |-> es, Services |-> svcs] :
        rs \in SeqsUpTo({PsRepo("r1", "main"), PsRepo("r1", "rel")}, MaxCatalog),
        es \in SeqsUpTo({PsKV("k1", "v0"), PsKV("k1", "v9"), PsKV("k2", "v0")},
                        MaxCatalog),
        svcs \in {{"svcA"}, {"svcA", "svcB"}}}
    \cup {[Found |-> FALSE, Repos |-> <<>>, Envs |-> <<>>,
           Services |-> {"svcA", "svcB"}]}

NoCatalog == [Found |-> FALSE, Repos |-> <<>>, Envs |-> <<>>, Services |-> {}]

PsTargets == {[ServiceName |-> "svcA", ServiceModule |-> "modA"]}

\* The ServiceAndBuilds a stored workflow holds for the build job.
PsStoredBuilds ==
    {[ServiceName |-> sm.ServiceName, ServiceModule |-> sm.ServiceModule,
      BuildName |-> "b1", ImageName |-> "", Repos |-> c.Repos,
      KeyVals |-> c.KeyVals] :
        sm \in ServiceModules,
        c \in {[Repos |-> <<>>, KeyVals |-> <<>>],
               [Repos |-> <<PsRepo("r1", "dev")>>,
                KeyVals |-> <<PsKV("k1", "v1")>>]}}

PsConfigs == UNION {[1..n -> PsStoredBuilds] : n \in 1..MaxBuilds}

\* service.Containers: the image name of the container of a service module.
ContainerImageName(serviceModule) ==
    IF serviceModule = "modA" THEN "imgA" ELSE serviceModule

IsTarget(build) ==
    [ServiceName |-> build.ServiceName, ServiceModule |-> build.ServiceModule]
        \in PsTargets

\* BuildJob.SetPreset, one round of the loop over ServiceAndBuilds: the
\* build that is appended to newBuilds, if any.
SetPresetBuild(build, cat) ==
    IF ~cat.Found THEN <<>>
    ELSE IF build.ServiceName \notin cat.Services THEN <<>>
    ELSE LET merged == IF IsTarget(build)
                       THEN [build EXCEPT
                                !.Repos = mergeRepos(cat.Repos, build.Repos).resp,
                                !.KeyVals = renderKeyVals(build.KeyVals, cat.Envs)]
                       ELSE build
         IN  <<[merged EXCEPT !.ImageName = ContainerImageName(build.ServiceModule)]>>

\* BuildJob.SetPreset.
RECURSIVE BuildSetPreset(_, _)
BuildSetPreset(builds, cat) ==
    IF builds = <<>> THEN <<>>
    ELSE SetPresetBuild(Head(builds), cat) \o BuildSetPreset(Tail(builds), cat)

SameServiceModule(a, b) ==
    a.ServiceName = b.ServiceName /\ a.ServiceModule = b.ServiceModule

\* BuildJob.MergeArgs, one round of the outer loop: the first build of the
\* arguments with the build's name, service and module is merged in.
MergeArgsBuild(build, argsBuilds) ==
    LET hits == {k \in 1..Len(argsBuilds) :
                    /\ build.BuildName = argsBuilds[k].BuildName
                    /\ SameServiceModule(build, argsBuilds[k])}
    IN  IF hits = {} THEN <<>>
        ELSE LET argsBuild == argsBuilds[CHOOSE k \in hits : \A h \in hits : k <= h]
             IN  <<[build EXCEPT
                       !.Repos = mergeRepos(build.Repos, argsBuild.Repos).resp,
                       !.KeyVals = renderKeyVals(argsBuild.KeyVals, build.KeyVals)]>>

\* BuildJob.MergeArgs, for arguments with the job's name and type.
RECURSIVE BuildMergeArgs(_, _)
BuildMergeArgs(builds, argsBuilds) ==
    IF builds = <<>> THEN <<>>
    ELSE MergeArgsBuild(Head(builds), argsBuilds)
             \o BuildMergeArgs(Tail(builds), argsBuilds)

\* BuildJob.UpdateWithLatestSetting, one round of the loop over the builds
\* of the stored workflow: userConfiguredService holds the last build of
\* the job's spec with the service and module.
UpdateBuild(buildInfo, builds, cat) ==
    LET hits == {k \in 1..Len(builds) : SameServiceModule(buildInfo, builds[k])}
    IN  IF hits = {} \/ ~cat.Found THEN <<>>
        ELSE LET userDefinedArgs ==
                     builds[CHOOSE k \in hits : \A h \in hits : h <= k]
                 latest == IF IsTarget(buildInfo)
                           THEN [buildInfo EXCEPT
                                    !.Repos = mergeRepos(cat.Repos, buildInfo.Repos).resp,
                                    !.KeyVals = renderKeyVals(buildInfo.KeyVals, cat.Envs)]
                           ELSE buildInfo
             IN  <<[ServiceName |-> latest.ServiceName,
                    ServiceModule |-> latest.ServiceModule,
                    BuildName |-> latest.BuildName,
                    ImageName |-> latest.ImageName,
                    KeyVals |-> renderKeyVals(userDefinedArgs.KeyVals, latest.KeyVals),
                    Repos |-> mergeRepos(latest.Repos, userDefinedArgs.Repos).resp]>>

\* BuildJob.UpdateWithLatestSetting, the job being found in the stored
\* workflow.
RECURSIVE BuildUpdateWithLatestSetting(_, _, _)
BuildUpdateWithLatestSetting(builds, latestBuilds, cat) ==
    IF latestBuilds = <<>> THEN <<>>
    ELSE UpdateBuild(Head(latestBuilds), builds, cat)
             \o BuildUpdateWithLatestSetting(builds, Tail(latestBuilds), cat)

\* ImageDistributeJob.SetPreset on the job at position n: the targets of
\* the spec afterwards and the error returned. The services of the project
\* are svcA and svcB.
DistributeSetPreset(jobs, n) ==
    LET spec == jobs[n].Spec
    IN  IF spec.Source = SourceFromJob
        THEN LET r == getOriginReferredJobTargets(
                          jobs, getOriginJobName(jobs, spec.JobName, MaxJobs),
                          spec.JobName, FALSE)
             IN  IF r.err # "" THEN [targets |-> spec.Targets, err |-> r.err]
                 ELSE [targets |-> r.targets, err |-> ""]
        ELSE [targets |->
                 [k \in 1..Len(spec.Targets) |->
                     [ServiceName |-> spec.Targets[k].ServiceName,
                      ServiceModule |-> spec.Targets[k].ServiceModule,
                      ImageName |-> ContainerImageName(spec.Targets[k].ServiceModule)]],
              err |-> ""]

\* The arguments a user sends for the builds picked: as they are shown, or
\* with the first variable and the branch of the first repository changed.
UserArgs(builds, changed) ==
    [k \in 1..Len(builds) |->
        IF ~changed THEN builds[k]
        ELSE [builds[k] EXCEPT
                 !.KeyVals = IF @ = <<>> THEN @
                             ELSE [@ EXCEPT ![1] = [@ EXCEPT !.Value = "vu"]],
                 !.Repos = IF @ = <<>> THEN @
                           ELSE [@ EXCEPT ![1] = [@ EXCEPT !.Branch = "bu"]]]]

RECURSIVE Picked(_, _, _)
Picked(builds, sel, k) ==
    IF k > Len(builds) THEN <<>>
    ELSE (IF k \in sel THEN <<builds[k]>> ELSE <<>>) \o Picked(builds, sel, k + 1)

\* SetPreset is called on the build job, at most twice in a row.
BuildSetPresetCall ==
    /\ psPc \in {"stored", "preset"}
    /\ UNCHANGED notPsVars
    /\ Len(psHist) < 2
    /\ psSpec' = BuildSetPreset(psSpec, psCatalog)
    /\ psHist' = Append(psHist, [op |-> "SetPreset", before |-> psSpec,
                                 spec |-> psSpec', err |-> ""])
    /\ psPc' = "preset"
    /\ UNCHANGED <<psCatalog, psConfig, psJobs>>

\* MergeArgs is called with the arguments of a user who picked some of the
\* builds shown.
BuildMergeArgsCall ==
    /\ psPc = "preset"
    /\ UNCHANGED notPsVars
    /\ \E sel \in SUBSET (1..Len(psSpec)), changed \in BOOLEAN :
          /\ psSpec' = BuildMergeArgs(psSpec, UserArgs(Picked(psSpec, sel, 1), changed))
          /\ psHist' = Append(psHist, [op |-> "MergeArgs", before |-> psSpec,
                                       spec |-> psSpec', err |-> ""])
    /\ psPc' = "merged"
    /\ UNCHANGED <<psCatalog, psConfig, psJobs>>

\* UpdateWithLatestSetting is called on the job; the catalog and the
\* stored workflow are as they were.
BuildUpdateCall ==
    /\ psPc \in {"preset", "merged"}
    /\ UNCHANGED notPsVars
    /\ psSpec' = BuildUpdateWithLatestSetting(psSpec, psConfig, psCatalog)
    /\ psHist' = Append(psHist, [op |-> "UpdateWithLatestSetting",
                                 before |-> psSpec, spec |-> psSpec', err |-> ""])
    /\ psPc' = "updated"
    /\ UNCHANGED <<psCatalog, psConfig, psJobs>>

\* MergeArgs is called after the update with arguments in which the user
\* changed nothing: the builds as they were before the update.
BuildMergeUnchangedCall ==
    /\ psPc = "updated"
    /\ UNCHANGED notPsVars
    /\ psSpec' = BuildMergeArgs(psSpec, psHist[Len(psHist)].before)
    /\ psHist' = Append(psHist, [op |-> "MergeArgs", before |-> psSpec,
                                 spec |-> psSpec', err |-> ""])
    /\ psPc' = "roundtrip"
    /\ UNCHANGED <<psCatalog, psConfig, psJobs>>

\* SetPreset is called on the distribute job, the last job of psJobs, at
\* most twice.
DistributeSetPresetCall ==
    /\ psPc \in {"dstored", "dpreset"}
    /\ UNCHANGED notPsVars
    /\ Len(psHist) < 2
    /\ LET n == Len(psJobs)
           r == DistributeSetPreset(psJobs, n)
       IN  /\ psJobs' = [psJobs EXCEPT ![n].Spec.Targets = r.targets]
           /\ psHist' = Append(psHist, [op |-> "SetPreset",
                                        before |-> psJobs[n].Spec.Targets,
                                        spec |-> r.targets, err |-> r.err])
    /\ psPc' = "dpreset"
    /\ UNCHANGED <<psCatalog, psConfig, psSpec>>

\* The workflows whose last job is a distribute job.
PsWorkflows ==
    {w \in Workflows : w[Len(w)].Spec.JobType = JobZadigDistributeImage}

(***************************************************************************)
(* The job executor: Execute runs the job, collects its outputs and        *)
(* reports the result through the job context ConfigMap.                   *)
(***************************************************************************)
JobSuccess == "success"
JobFail == "fail"

\* The outputs a job may write while it runs.
OutputNames == {"IMAGE", "PKG_FILE", "COMMITID", "BRANCH"}

\* A failure of the calls Execute makes: "" is nil.
SetupErrs == {"", "new job", "get namespace", "get InClusterConfig", "get ClientSet"}
RunErrs == {"", "run failed"}
AfterRunErrs == {"", "collect failed"}

\* The job context ConfigMap before the executor has written to it.
NoConfigMap == [Result |-> "", Outputs |-> {}, Updated |-> FALSE]

\* A run that stops at the first error and skips the collection of outputs.
ReturnOnRunErr(runErr) == IF runErr # "" THEN "deferred" ELSE "after"

\* runErr = j.Run(ctx); afterRunErr = j.AfterRun(ctx): AfterRun follows Run
\* whatever Run returned.
AfterRunFollows(runErr) == "after"

\* The error Execute returns after Run and AfterRun.
ExecuteErr(runErr, afterRunErr) == IF runErr # "" THEN runErr ELSE afterRunErr

\* resultMsg of the deferred function.
ResultMsg(err) == IF err # "" THEN JobFail ELSE JobSuccess

\* Job.AfterRun: the outputs written so far become OutputsJsonBytes, unless
\* the collection fails.
CollectOutputs(produced, bytes, afterRunErr) == IF afterRunErr = "" THEN produced ELSE bytes

\* NewJob, namespace, cluster configuration, client set: an error returns
\* before the deferred function is registered.
ExSetup ==
    /\ exPc = "idle"
    /\ UNCHANGED notExVars
    /\ \E e \in SetupErrs :
        /\ exErr' = e
        /\ exPc' = IF e # "" THEN "returned" ELSE "run"
    /\ UNCHANGED <<exProduced, exRunErr, exAfterRun, exBytes, exCM>>

\* j.Run: the job writes some outputs and succeeds or fails.
ExRun ==
    /\ exPc = "run"
    /\ UNCHANGED notExVars
    /\ \E out \in SUBSET OutputNames, e \in RunErrs :
        /\ exProduced' = out
        /\ exRunErr' = e
        /\ exPc' = AfterRunFollows(e)
    /\ UNCHANGED <<exAfterRun, exBytes, exErr, exCM>>

\* j.AfterRun collects the outputs written so far into OutputsJsonBytes;
\* then Execute picks the error it returns.
ExAfterRun ==
    /\ exPc = "after"
    /\ UNCHANGED notExVars
    /\ \E e \in AfterRunErrs :
        /\ exAfterRun' = [called |-> TRUE, err |-> e]
        /\ exBytes' = CollectOutputs(exProduced, exBytes, e)
        /\ exErr' = ExecuteErr(exRunErr, e)
    /\ exPc' = "deferred"
    /\ UNCHANGED <<exProduced, exRunErr, exCM>>

\* The deferred function: result and outputs go to the ConfigMap, unless
\* reading or updating the ConfigMap fails.
ExDeferred ==
    /\ exPc = "deferred"
    /\ UNCHANGED notExVars
    /\ \E getOK \in BOOLEAN, updateOK \in BOOLEAN :
        exCM' = IF getOK /\ updateOK
                THEN [Result |-> ResultMsg(exErr), Outputs |-> exBytes, Updated |-> TRUE]
                ELSE exCM
    /\ exPc' = "returned"
    /\ UNCHANGED <<exProduced, exRunErr, exAfterRun, exBytes, exErr>>

(***************************************************************************)
(* The steps of a JobTask and the runner that executes them.               *)
(***************************************************************************)
StatusNotRun == ""
StatusTimeout == "timeout"
StatusCancelled == "cancelled"

\* A step that carries the IgnoreErr flag in its spec (download-archive and
\* tar-archive).
BestEffortStep(name, stepType) ==
    [Name |-> name, StepType |-> stepType, IgnoreErr |-> TRUE, Targets |-> <<>>]

\* A step that is marked best-effort although its spec has no such flag.
PlainStepIgnoringErr(name, stepType) ==
    [Name |-> name, StepType |-> stepType, IgnoreErr |-> TRUE, Targets |-> <<>>]

\* A step whose spec has no IgnoreErr flag.
PlainStep(name, stepType) ==
    [Name |-> name, StepType |-> stepType, IgnoreErr |-> FALSE, Targets |-> <<>>]

\* A step that is appended only under a condition.
StepIf(cond, step) == IF cond THEN <<step>> ELSE <<>>

\* The settings of a build or scanning module that decide which steps exist.
BuildOptions ==
    [Cache : BOOLEAN, DockerBuild : BOOLEAN, FileArchive : BOOLEAN, PostScripts : BOOLEAN]
ScanningOptions ==
    [Cache : BOOLEAN, Sonar : BOOLEAN, EnableScanner : BOOLEAN, CheckQualityGate : BOOLEAN]

\* BuildJob.ToJobs: jobTaskSpec.Steps of one build, in the order of the
\* appends (the object-storage upload is left out).
BuildSteps(o) ==
    <<PlainStep("tool-install", "StepTools")>>
    \o StepIf(o.Cache, BestEffortStep("download-archive", "StepDownloadArchive"))
    \o <<PlainStep("git", "StepGit"),
         PlainStep("debug_before", "StepDebugBefore"),
         PlainStep("shell", "StepShell"),
         PlainStep("debug_after", "StepDebugAfter")>>
    \o StepIf(o.DockerBuild, PlainStep("docker-build", "StepDockerBuild"))
    \o StepIf(o.Cache, BestEffortStep("tar-archive", "StepTarArchive"))
    \o StepIf(o.FileArchive, PlainStep("pkgfile-archive", "StepArchive"))
    \o StepIf(o.PostScripts, PlainStep("post-shell", "StepShell"))

\* ScanningJob.toJobTask: jobTaskSpec.Steps, in the order of the appends.
ScanningSteps(o) ==
    <<PlainStep("tool-install", "StepTools")>>
    \o StepIf(o.Cache, BestEffortStep("download-archive", "StepDownloadArchive"))
    \o <<PlainStep("git", "StepGit"),
         PlainStep("debug-before", "StepDebugBefore"),
         PlainStep("shell", "StepShell")>>
    \o StepIf(o.Sonar /\ o.EnableScanner, PlainStep("sonar-shell", "StepShell"))
    \o StepIf(o.Sonar, PlainStep("sonar-get-metrics", "StepSonarGetMetrics"))
    \o StepIf(o.Sonar /\ o.CheckQualityGate, PlainStep("sonar-check", "StepSonarCheck"))
    \o StepIf(o.Cache, BestEffortStep("tar-archive", "StepTarArchive"))
    \o <<PlainStep("debug-after", "StepDebugAfter")>>

\* The source images of a distribute step's targets: "" is a reference that
\* rendered to nothing.
StepTargetLists == UNION {[1..k -> [SourceImage : {"", "img"}]] : k \in 1..MaxTargets}

\* ImageDistributeJob.ToJobs: the one step of a distribute task.
DistributeSteps(targets) ==
    <<[Name |-> "distribute", StepType |-> "StepDistributeImage", IgnoreErr |-> FALSE,
       Targets |-> targets]>>

\* The step lists of the compiled job tasks.
StepLists ==
    {BuildSteps(o) : o \in BuildOptions}
    \cup {ScanningSteps(o) : o \in ScanningOptions}
    \cup {DistributeSteps(t) : t \in StepTargetLists}

\* A PreRun that accepts every target.
PreRunUnchecked(targets) == ""

\* distributeImageCtl.PreRun: an empty source image is an error.
PreRun(targets) ==
    IF \E k \in 1..Len(targets) : targets[k].SourceImage = ""
    THEN "source image is empty"
    ELSE ""

\* The errors the PreRun of a step can return: the distribute controller's
\* is PreRun above; the other controllers may fail or not.
PreRunErrs(step) ==
    IF step.StepType = "StepDistributeImage" THEN {PreRun(step.Targets)}
    ELSE {"", "pre-run failed"}

\* The statuses a step's Run can end in.
RunResults == {StatusPassed, StatusFailed, StatusTimeout, StatusCancelled}

\* The step the runner handles: the first one that is still NotRun or
\* Running.
StCursor ==
    IF \E i \in 1..Len(stSteps) : stHist[i][Len(stHist[i])] \in {StatusNotRun, StatusRunning}
    THEN CHOOSE i \in 1..Len(stSteps) :
            /\ stHist[i][Len(stHist[i])] \in {StatusNotRun, StatusRunning}
            /\ \A k \in 1..(i - 1) : stHist[k][Len(stHist[k])] \notin {StatusNotRun, StatusRunning}
    ELSE 0

\* What the runner does after step i ended with the status: it goes on after
\* a passed step and after a failed step that carries IgnoreErr, and gives
\* up the remaining steps otherwise.
AfterStep(i, status) ==
    IF i = Len(stSteps) THEN "done"
    ELSE IF status = StatusPassed \/ (status = StatusFailed /\ stSteps[i].IgnoreErr)
         THEN "next"
         ELSE "done"

\* The runner calls the PreRun of the next step: on an error the step is
\* Failed, otherwise it is Running.
StPreRun ==
    /\ stPc = "next"
    /\ UNCHANGED notStVars
    /\ LET i == StCursor
       IN  \E e \in PreRunErrs(stSteps[i]) :
              /\ stLog' = Append(stLog, [op |-> "PreRun", step |-> i, err |-> e])
              /\ IF e # ""
                 THEN /\ stHist' = [stHist EXCEPT ![i] = Append(@, StatusFailed)]
                      /\ stPc' = AfterStep(i, StatusFailed)
                 ELSE /\ stHist' = [stHist EXCEPT ![i] = Append(@, StatusRunning)]
                      /\ stPc' = "running"
    /\ UNCHANGED stSteps

\* The runner calls the Run of the step that is Running; the step ends.
StRun ==
    /\ stPc = "running"
    /\ UNCHANGED notStVars
    /\ LET i == StCursor
       IN  \E status \in RunResults :
              /\ stLog' = Append(stLog, [op |-> "Run", step |-> i,
                                         err |-> IF status = StatusPassed THEN "" ELSE status])
              /\ stHist' = [stHist EXCEPT ![i] = Append(@, status)]
              /\ stPc' = AfterStep(i, status)
    /\ UNCHANGED stSteps

(***************************************************************************)
(* The stages of a workflow task and the scheduler that runs them.         *)
(***************************************************************************)
MaxStages == 2
MaxStageJobs == 3

\* ErrorPolicy of a job: stop the stage on failure, or tolerate the failure.
ErrorPolicies == {"stop", "ignore_error"}

\* The stages of a workflow: a parallel/serial flag and up to MaxStageJobs
\* jobs.
StageDefs ==
    [Parallel : BOOLEAN,
     Jobs : UNION {[1..n -> [ErrorPolicy : ErrorPolicies]] : n \in 1..MaxStageJobs}]

\* A task compiled with a policy of its own instead of the job's.
JobTaskIgnoringErrors(job) == [ErrorPolicy |-> "ignore_error"]

\* ToJobs: the JobTask carries the ErrorPolicy of its job.
JobTaskOf(job) == [ErrorPolicy |-> job.ErrorPolicy]

\* The JobTask of job j of stage s.
SgTask(s, j) == JobTaskOf(sgDef[s].Jobs[j])

\* The positions of the jobs of stage s.
SgJobs(s) == 1..Len(sgDef[s].Jobs)

\* Job j of stage s failed and its task's policy stops the stage.
SgStopped(s) ==
    \E j \in SgJobs(s) : sgJob[s][j] = StatusFailed /\ SgTask(s, j).ErrorPolicy = "stop"

SgTerminal == {StatusPassed, StatusFailed, StatusCancelled}

\* A scheduler that starts a stage whatever the previous one is doing.
StageMayStartAtOnce(s) == TRUE

\* A stage starts when the previous stage has passed.
StageMayStart(s) == IF s = 1 THEN TRUE ELSE sgStage[s - 1] = StatusPassed

\* The scheduler starts the next stage.
SgStartStage ==
    /\ UNCHANGED notSgVars
    /\ \E s \in 1..Len(sgDef) :
          /\ sgStage[s] = StatusNotRun
          /\ StageMayStart(s)
          /\ sgStage' = [sgStage EXCEPT ![s] = StatusRunning]
    /\ UNCHANGED <<sgDef, sgJob, sgStarted>>

\* The scheduler starts a job of a running stage: any job of a parallel
\* stage, the next job of a serial one; none once the stage is stopped.
SgStartJob ==
    /\ UNCHANGED notSgVars
    /\ \E s \in 1..Len(sgDef) : \E j \in SgJobs(s) :
          /\ sgStage[s] = StatusRunning
          /\ sgJob[s][j] = StatusNotRun
          /\ ~SgStopped(s)
          /\ sgDef[s].Parallel \/ \A k \in 1..(j - 1) : sgJob[s][k] \in SgTerminal
          /\ sgJob' = [sgJob EXCEPT ![s][j] = StatusRunning]
          /\ sgStarted' = sgStarted \cup {<<s, j>>}
    /\ UNCHANGED <<sgDef, sgStage>>

\* A running job ends; a failure under the stop policy cancels the jobs of
\* the stage that have not started.
SgFinishJob ==
    /\ UNCHANGED notSgVars
    /\ \E s \in 1..Len(sgDef) : \E j \in SgJobs(s) : \E status \in {StatusPassed, StatusFailed} :
          /\ sgJob[s][j] = StatusRunning
          /\ sgJob' = [sgJob EXCEPT ![s] =
                          [k \in SgJobs(s) |->
                              IF k = j THEN status
                              ELSE IF /\ status = StatusFailed
                                      /\ SgTask(s, j).ErrorPolicy = "stop"
                                      /\ sgJob[s][k] = StatusNotRun
                                   THEN StatusCancelled
                                   ELSE sgJob[s][k]]]
    /\ UNCHANGED <<sgDef, sgStage, sgStarted>>

\* Every job of the stage has ended: the stage is Failed when a failure
\* stopped it and Passed otherwise (a tolerated failure is only recorded).
SgFinishStage ==
    /\ UNCHANGED notSgVars
    /\ \E s \in 1..Len(sgDef) :
          /\ sgStage[s] = StatusRunning
          /\ \A j \in SgJobs(s) : sgJob[s][j] \in SgTerminal
          /\ sgStage' = [sgStage EXCEPT ![s] =
                            IF SgStopped(s) THEN StatusFailed ELSE StatusPassed]
    /\ UNCHANGED <<sgDef, sgJob, sgStarted>>

(***************************************************************************)
(* The target image tag rule of a from-job image distribute job.           *)
(***************************************************************************)
\* A string is a sequence of tokens; a placeholder is one token.
PreBuildImageTagVariable == "{{.job.preBuild.imageTag}}"
PreJobImageTagVariable == "{{.job.preJob.imageTag}}"

\* The longest rule, in tokens.
MaxRuleLen == 3

RuleTokens == {PreBuildImageTagVariable, PreJobImageTagVariable, "release-"}

TagRules == SeqsUpTo(RuleTokens, MaxRuleLen)

\* strings.ReplaceAll: every occurrence of the token old in s replaced by
\* the tokens of new.
RECURSIVE ReplaceAll(_, _, _)
ReplaceAll(s, old, new) ==
    IF s = <<>> THEN <<>>
    ELSE (IF Head(s) = old THEN new ELSE <<Head(s)>>) \o ReplaceAll(Tail(s), old, new)

\* fmt.Sprintf("{{.job.%s.%s.%s.output.%s}}", jobName, serviceName,
\* serviceModule, IMAGETAGKEY): the upstream job's imageTag output.
ImageTagRef(jobName, target) ==
    <<"{{.job.", jobName, ".", target.ServiceName, ".", target.ServiceModule,
      ".output.", "IMAGETAGKEY", "}}">>

\* ToJobs, lines 252-255: TargetTag is assigned twice, each time from the
\* rule itself, so the second assignment is the one that stays.
RuleTag(rule, ref) ==
    LET first == ReplaceAll(rule, PreBuildImageTagVariable, ref)
        second == ReplaceAll(rule, PreJobImageTagVariable, ref)
    IN  second

\* targetTagMap[getServiceKey(...)]: the configured target of the service
\* module, the last one if it is listed twice, the zero value if it is not.
RECURSIVE TargetTagMap(_, _)
TargetTagMap(targets, svc) ==
    IF targets = <<>> THEN [TargetTag |-> <<>>, UpdateTag |-> FALSE]
    ELSE LET t == targets[Len(targets)]
         IN  IF t.ServiceName = svc.ServiceName /\ t.ServiceModule = svc.ServiceModule
             THEN [TargetTag |-> t.TargetTag, UpdateTag |-> t.UpdateTag]
             ELSE TargetTagMap(SubSeq(targets, 1, Len(targets) - 1), svc)

\* The targets a distribute job is configured with.
ConfiguredTargets ==
    {[ServiceName |-> sm.ServiceName, ServiceModule |-> sm.ServiceModule,
      TargetTag |-> tag, UpdateTag |-> u] :
        sm \in ServiceModules, tag \in {<<>>, <<"v1">>}, u \in BOOLEAN}

\* The targets getOriginReferredJobTargets returns: no tag yet.
ReferredTargets ==
    {[ServiceName |-> sm.ServiceName, ServiceModule |-> sm.ServiceModule,
      TargetTag |-> <<>>, UpdateTag |-> FALSE] : sm \in ServiceModules}

TagInit ==
    /\ tagSpec \in [JobName : {"j1"},
                    EnableTargetImageTagRule : BOOLEAN,
                    TargetImageTagRule : TagRules,
                    Targets : SeqsUpTo(ConfiguredTargets, 1)]
    /\ tagTargets \in SeqsUpTo(ReferredTargets, MaxTargets)
    /\ tagIdx = 0
    /\ tagPc = "loop"

\* ToJobs, lines 250-261: one pass of the loop over the referred targets.
TagTarget ==
    /\ UNCHANGED notTagVars
    /\ tagPc = "loop"
    /\ tagIdx < Len(tagTargets)
    /\ LET k == tagIdx + 1
           target == tagTargets[k]
           conf == TargetTagMap(tagSpec.Targets, target)
       IN  /\ tagTargets' =
                 [tagTargets EXCEPT ![k] =
                     IF tagSpec.EnableTargetImageTagRule
                     THEN [target EXCEPT
                              !.TargetTag = RuleTag(tagSpec.TargetImageTagRule,
                                                    ImageTagRef(tagSpec.JobName, target)),
                              !.UpdateTag = TRUE]
                     ELSE [target EXCEPT !.TargetTag = conf.TargetTag,
                                         !.UpdateTag = conf.UpdateTag]]
           /\ tagIdx' = k
    /\ UNCHANGED <<tagSpec, tagPc>>

\* ToJobs, line 263: j.spec.Targets = targets.
TagStore ==
    /\ UNCHANGED notTagVars
    /\ tagPc = "loop"
    /\ tagIdx = Len(tagTargets)
    /\ tagSpec' = [tagSpec EXCEPT !.Targets = tagTargets]
    /\ tagPc' = "stored"
    /\ UNCHANGED <<tagTargets, tagIdx>>
(***************************************************************************)
(* The env resource sync schedulers of the cron service.                   *)
(***************************************************************************)
\* The longest listing of one pass: the resources of all envs, in order.
MaxListing == 2

\* buildEnvResourceCronKey of the resources that may be listed.
EnvResourceKeys == {"r1", "r2"}

CreateTimes == {1, 2}

\* What the pass meets when it walks the envs: a resource, or a
\* ListEnvResources call that fails.
EnvListed ==
    {[key |-> k, CreateTime |-> t, fails |-> FALSE] : k \in EnvResourceKeys, t \in CreateTimes}
        \cup {[key |-> "", CreateTime |-> 0, fails |-> TRUE]}

EnvListings == SeqsUpTo(EnvListed, MaxListing)

NoPass == [listing |-> <<>>, rest |-> <<>>, lastScheduler |-> {}, cur |-> "", result |-> ""]

\* The keys of the resources a listing holds.
ListedKeys(listing) == {listing[i].key : i \in {j \in 1..Len(listing) : ~listing[j].fails}}

\* A deletion that leaves the stop channel and the scheduler in place.
KeepEnvResourceScheduler(store, envResourceKey) == store

\* deleteEnvResourceScheduler: the stop channel and the scheduler of the key.
deleteEnvResourceScheduler(store, envResourceKey) ==
    [Schedulers |-> store.Schedulers \ {envResourceKey},
     SchedulerController |-> store.SchedulerController \ {envResourceKey}]

\* Whether the loop leaves a resource alone: it is known with the same
\* CreateTime.
EnvUnchanged(last, envResource) ==
    /\ envResource.key \in DOMAIN last
    /\ last[envResource.key] = envResource.CreateTime

\* The mutex after the continue of an unchanged resource.
AfterContinue == "locked"

EnvInit ==
    /\ envLast = <<>>
    /\ envSchedulers = {}
    /\ envController = {}
    /\ envMutex = "unlocked"
    /\ envPass = NoPass
    /\ envPc = "idle"

\* UpsertEnvResourceSyncScheduler is called and ListEnvs fails.
EnvListEnvsFails ==
    /\ UNCHANGED notEnvVars
    /\ envPc = "idle"
    /\ envPass' = [NoPass EXCEPT !.result = "list envs failed"]
    /\ UNCHANGED <<envLast, envSchedulers, envController, envMutex, envPc>>

\* UpsertEnvResourceSyncScheduler is called and ListEnvs succeeds.
EnvStartPass ==
    /\ UNCHANGED notEnvVars
    /\ envPc = "idle"
    /\ \E listing \in EnvListings :
          envPass' = [NoPass EXCEPT !.listing = listing, !.rest = listing]
    /\ envPc' = "rlock"
    /\ UNCHANGED <<envLast, envSchedulers, envController, envMutex>>

\* RLock, the copy of the known keys into lastScheduler, RUnlock.
EnvSnapshot ==
    /\ UNCHANGED notEnvVars
    /\ envPc = "rlock"
    /\ envMutex = "unlocked"
    /\ envPass' = [envPass EXCEPT !.lastScheduler = DOMAIN envLast]
    /\ envPc' = "loop"
    /\ UNCHANGED <<envLast, envSchedulers, envController, envMutex>>

\* The loops over the envs and their resources, up to the Lock.
EnvNextResource ==
    /\ UNCHANGED notEnvVars
    /\ envPc = "loop"
    /\ IF envPass.rest = <<>>
       THEN /\ envPc' = "cleanup"
            /\ UNCHANGED envPass
       ELSE IF Head(envPass.rest).fails
       THEN /\ envPc' = "idle"
            /\ envPass' = [envPass EXCEPT !.result = "list env resources failed"]
       ELSE /\ envPc' = "lock"
            /\ envPass' = [envPass EXCEPT !.rest = Tail(@),
                                          !.cur = Head(envPass.rest).key,
                                          !.lastScheduler = @ \ {Head(envPass.rest).key}]
    /\ UNCHANGED <<envLast, envSchedulers, envController, envMutex>>

\* The body of the resource loop from the Lock on.
EnvUpsertResource ==
    /\ UNCHANGED notEnvVars
    /\ envPc = "lock"
    /\ envMutex = "unlocked"
    /\ LET envResource == envPass.listing[Len(envPass.listing) - Len(envPass.rest)]
           store == deleteEnvResourceScheduler(
                        [Schedulers |-> envSchedulers, SchedulerController |-> envController],
                        envResource.key)
       IN  IF EnvUnchanged(envLast, envResource)
           THEN /\ envMutex' = AfterContinue
                /\ UNCHANGED <<envLast, envSchedulers, envController>>
           ELSE /\ envLast' = [k \in DOMAIN envLast \cup {envResource.key} |->
                                  IF k = envResource.key THEN envResource.CreateTime
                                  ELSE envLast[k]]
                /\ envSchedulers' = store.Schedulers \cup {envResource.key}
                /\ envController' = store.SchedulerController \cup {envResource.key}
                /\ UNCHANGED envMutex
    /\ envPc' = "loop"
    /\ UNCHANGED envPass

\* The loop over lastScheduler.List(), up to the Lock; the return when no
\* key is left.
EnvCleanup ==
    /\ UNCHANGED notEnvVars
    /\ envPc = "cleanup"
    /\ IF envPass.lastScheduler = {}
       THEN /\ envPc' = "idle"
            /\ envPass' = [envPass EXCEPT !.result = "done"]
            /\ UNCHANGED <<envSchedulers, envController>>
       ELSE \E k \in envPass.lastScheduler :
               LET store == deleteEnvResourceScheduler(
                                [Schedulers |-> envSchedulers,
                                 SchedulerController |-> envController], k)
               IN  /\ envSchedulers' = store.Schedulers
                   /\ envController' = store.SchedulerController
                   /\ envPass' = [envPass EXCEPT !.cur = k, !.lastScheduler = @ \ {k}]
                   /\ envPc' = "cleanup lock"
    /\ UNCHANGED <<envLast, envMutex>>

\* Lock, delete(c.lastEnvResourceSchedulerData, k), Unlock.
EnvForget ==
    /\ UNCHANGED notEnvVars
    /\ envPc = "cleanup lock"
    /\ envMutex = "unlocked"
    /\ envLast' = [k \in DOMAIN envLast \ {envPass.cur} |-> envLast[k]]
    /\ envPc' = "cleanup"
    /\ UNCHANGED <<envSchedulers, envController, envMutex, envPass>>
(***************************************************************************)
(* InitializeUser: the creation of the first user of the system.           *)
(***************************************************************************)
\* The callers that may run InitializeUser at the same time.
Callers == {"c1", "c2"}

Usernames == {"alice", "bob"}

\* A caller that is not inside InitializeUser and has not called it yet.
NotCalled == [pc |-> "idle", username |-> "", TotalUser |-> 0, Uid |-> 0, err |-> ""]

\* user.New().CountUsers(): TotalUser.
CountUsers(users) == Cardinality(DOMAIN users)

\* InitializeUser, line 62: the system has a user already.
IsInitialized(totalUser) == totalUser > 0

\* user.New().CreateUser: a new user under the next uid.
CreateUser(users, name) ==
    [u \in DOMAIN users \cup {Cardinality(DOMAIN users) + 1} |->
        IF u \in DOMAIN users THEN users[u] ELSE name]

IuInit ==
    /\ iuUsers = <<>>
    /\ iuBindings = {}
    /\ iuPrivacy = FALSE
    /\ iuCall = [c \in Callers |-> NotCalled]

\* A caller enters InitializeUser.
IuEnter ==
    /\ UNCHANGED notIuVars
    /\ \E c \in Callers, name \in Usernames :
          /\ iuCall[c].pc \in {"idle", "returned"}
          /\ iuCall' = [iuCall EXCEPT ![c] = [NotCalled EXCEPT !.pc = "count", !.username = name]]
    /\ UNCHANGED <<iuUsers, iuBindings, iuPrivacy>>

\* InitializeUser, lines 56-64: CountUsers and the check of TotalUser.
IuCountUsers ==
    /\ UNCHANGED notIuVars
    /\ \E c \in Callers, fails \in BOOLEAN :
          /\ iuCall[c].pc = "count"
          /\ iuCall' = [iuCall EXCEPT ![c] =
                 IF fails
                 THEN [@ EXCEPT !.pc = "returned",
                                !.err = "failed to check if the user is initialized"]
                 ELSE IF IsInitialized(CountUsers(iuUsers))
                 THEN [@ EXCEPT !.pc = "returned", !.TotalUser = CountUsers(iuUsers),
                                !.err = "there are already user in the system"]
                 ELSE [@ EXCEPT !.pc = "create", !.TotalUser = CountUsers(iuUsers)]]
    /\ UNCHANGED <<iuUsers, iuBindings, iuPrivacy>>

\* InitializeUser, lines 66-77: CreateUser.
IuCreateUser ==
    /\ UNCHANGED notIuVars
    /\ \E c \in Callers, fails \in BOOLEAN :
          /\ iuCall[c].pc = "create"
          /\ IF fails
             THEN /\ iuCall' = [iuCall EXCEPT ![c].pc = "returned",
                                              ![c].err = "failed to create user"]
                  /\ UNCHANGED iuUsers
             ELSE /\ iuUsers' = CreateUser(iuUsers, iuCall[c].username)
                  /\ iuCall' = [iuCall EXCEPT ![c].pc = "privacy",
                                              ![c].Uid = Cardinality(DOMAIN iuUsers) + 1]
    /\ UNCHANGED <<iuBindings, iuPrivacy>>

\* InitializeUser, lines 79-100: UpdatePrivacySetting; reportRegister
\* changes nothing here and its error is ignored.
IuUpdatePrivacySetting ==
    /\ UNCHANGED notIuVars
    /\ \E c \in Callers, fails \in BOOLEAN :
          /\ iuCall[c].pc = "privacy"
          /\ IF fails
             THEN /\ iuCall' = [iuCall EXCEPT ![c].pc = "returned",
                                              ![c].err = "privacy setting initialization error"]
                  /\ UNCHANGED iuPrivacy
             ELSE /\ iuPrivacy' = TRUE
                  /\ iuCall' = [iuCall EXCEPT ![c].pc = "bind"]
    /\ UNCHANGED <<iuUsers, iuBindings>>

\* InitializeUser, line 103: CreateUserRoleBinding(userInfo.Uid, "*", "admin").
IuCreateUserRoleBinding ==
    /\ UNCHANGED notIuVars
    /\ \E c \in Callers, fails \in BOOLEAN :
          /\ iuCall[c].pc = "bind"
          /\ IF fails
             THEN /\ iuCall' = [iuCall EXCEPT ![c].pc = "returned",
                                              ![c].err = "create role binding"]
                  /\ UNCHANGED iuBindings
             ELSE /\ iuBindings' = iuBindings \cup {iuCall[c].Uid}
                  /\ iuCall' = [iuCall EXCEPT ![c].pc = "returned"]
    /\ UNCHANGED <<iuUsers, iuPrivacy>>
(***************************************************************************)
(* The log of a VM job and the status key of the job.                      *)
(***************************************************************************)
VMJobIDs == {"a", "b"}

\* VMJob.JobFinished: the job has reached a final status.
JobFinished(status) == status \in {StatusPassed, StatusFailed, StatusTimeout, StatusCancelled}

\* The statuses a job may report next.
NextStatuses(status) ==
    IF JobFinished(status) THEN {status}
    ELSE {StatusRunning, StatusPassed, StatusFailed, StatusTimeout, StatusCancelled}

\* VMJobStatusMap.Set: SetNX of the job's key.
VMJobStatusSet(keys, id) == keys \cup {id}

\* VMJobStatusMap.Delete.
VMJobStatusDelete(keys, id) == keys \ {id}

\* The calls of savaVMJobLog that may fail, for the job and the log
\* content given: CreateVMJobLogFile, WriteFile, FindDefault and the
\* upload itself.
VMFailPoints(job, logContent) ==
    {""} \cup (IF job.LogFile = "" /\ logContent # "" THEN {"create"} ELSE {})
         \cup (IF logContent # "" THEN {"write"} ELSE {})
         \cup (IF JobFinished(job.Status) THEN {"find store"} ELSE {})
         \cup (IF JobFinished(job.Status) /\ (job.LogFile # "" \/ logContent # "")
               THEN {"upload"} ELSE {})

\* uploadVMJobLog2S3: its error.
uploadVMJobLog2S3(job, failAt) ==
    IF failAt = "find store" THEN "failed to get default s3 storage"
    ELSE IF job.LogFile # "" /\ failAt = "upload" THEN "s3 Upload error"
    ELSE ""

\* savaVMJobLog on the job with the given id: the keys, the job and the
\* error it leaves.
savaVMJobLog(keys, id, job, logContent, failAt) ==
    LET set == IF job.Status = StatusRunning THEN VMJobStatusSet(keys, id) ELSE keys
        withFile == IF job.LogFile = "" /\ logContent # "" /\ failAt # "create"
                    THEN [job EXCEPT !.LogFile = "file"] ELSE job
        upErr == uploadVMJobLog2S3(withFile, failAt)
    IN  IF job.LogFile = "" /\ logContent # "" /\ failAt = "create"
        THEN [keys |-> set, job |-> job, err |-> "failed to generate tmp file"]
        ELSE IF logContent # "" /\ failAt = "write"
        THEN [keys |-> set, job |-> withFile, err |-> "failed to write log to file"]
        ELSE IF ~JobFinished(job.Status)
        THEN [keys |-> set, job |-> withFile, err |-> ""]
        ELSE IF upErr # ""
        THEN [keys |-> set, job |-> withFile, err |-> "failed to upload job log to s3"]
        ELSE [keys |-> VMJobStatusDelete(set, id), job |-> withFile, err |-> ""]

NoLogCall == [id |-> "", Status |-> "", logContent |-> "", err |-> ""]

VmInit ==
    /\ vmStatusKeys = {}
    /\ vmJobs = [id \in VMJobIDs |-> [Status |-> "", LogFile |-> ""]]
    /\ vmCall = NoLogCall

\* The agent reports the status of a job and a piece of its log, and the
\* report handler passes both to savaVMJobLog.
VmReportLog ==
    /\ UNCHANGED notVmVars
    /\ \E id \in VMJobIDs, logContent \in {"", "log"} :
          \E status \in NextStatuses(vmJobs[id].Status) :
             LET job == [vmJobs[id] EXCEPT !.Status = status]
             IN  \E failAt \in VMFailPoints(job, logContent) :
                    LET r == savaVMJobLog(vmStatusKeys, id, job, logContent, failAt)
                    IN  /\ vmStatusKeys' = r.keys
                        /\ vmJobs' = [vmJobs EXCEPT ![id] = r.job]
                        /\ vmCall' = [id |-> id, Status |-> status,
                                      logContent |-> logContent, err |-> r.err]
(***************************************************************************)
(* Specifications.                                                         *)
(***************************************************************************)
CronIdle ==
    /\ cronColl = <<>>
    /\ cronNextID = 1
    /\ msgQueue = <<>>
    /\ cronCall = NoCall

SQLIdle ==
    /\ sqlText = <<>>
    /\ sqlJob = [Status |-> "", Error |-> NoErr]
    /\ sqlResults = <<>>
    /\ sqlPc = "idle"
    /\ sqlIdx = 0
    /\ sqlDB = "none"
    /\ sqlExecLog = <<>>
    /\ sqlCleaned = FALSE

KVIdle ==
    /\ kvInput = <<>>
    /\ kvOrigin = <<>>
    /\ kvResp = <<>>
    /\ kvPc = "idle"

RepoIdle ==
    /\ repoInput = <<>>
    /\ repoOrigin = <<>>
    /\ repoKvs = <<>>
    /\ repoResp = <<>>
    /\ repoInputOut = <<>>
    /\ repoOp = "idle"

WfIdle ==
    /\ wfJobs = <<>>
    /\ wfPc = "idle"
    /\ wfIdx = 0
    /\ lintCall = [job |-> "", err |-> ""]
    /\ compCall = [job |-> "", tasks |-> <<>>, err |-> "", outputs |-> {}]
    /\ wfTasks = <<>>
    /\ globalContext = <<>>
    /\ ctxLog = <<>>

PsIdle ==
    /\ psCatalog = NoCatalog
    /\ psConfig = <<>>
    /\ psSpec = <<>>
    /\ psJobs = <<>>
    /\ psHist = <<>>
    /\ psPc = "idle"

ExIdle ==
    /\ exPc = "idle"
    /\ exProduced = {}
    /\ exRunErr = ""
    /\ exAfterRun = [called |-> FALSE, err |-> ""]
    /\ exBytes = {}
    /\ exErr = ""
    /\ exCM = NoConfigMap

StIdle ==
    /\ stSteps = <<>>
    /\ stHist = <<>>
    /\ stLog = <<>>
    /\ stPc = "idle"

SgIdle ==
    /\ sgDef = <<>>
    /\ sgJob = <<>>
    /\ sgStage = <<>>
    /\ sgStarted = {}

TagIdle ==
    /\ tagSpec = <<>>
    /\ tagTargets = <<>>
    /\ tagIdx = 0
    /\ tagPc = "idle"

EnvIdle ==
    /\ envLast = <<>>
    /\ envSchedulers = {}
    /\ envController = {}
    /\ envMutex = "unlocked"
    /\ envPass = <<>>
    /\ envPc = "idle"

IuIdle ==
    /\ iuUsers = <<>>
    /\ iuBindings = {}
    /\ iuPrivacy = FALSE
    /\ iuCall = <<>>

VmIdle ==
    /\ vmStatusKeys = {}
    /\ vmJobs = <<>>
    /\ vmCall = <<>>

CronInit ==
    /\ cronNextID \in 1..(MaxCronID + 1)
    /\ cronColl \in CronStores(cronNextID)
    /\ msgQueue = <<>>
    /\ cronCall = NoCall

CronNext ==
    \/ HandleCronjobNoSchedule
    \/ HandleCronjobDisabled
    \/ HandleCronjobEnabled
    \/ ConsumeCronMsg

InitCron == CronInit /\ SQLIdle /\ KVIdle /\ RepoIdle /\ WfIdle /\ PsIdle /\ ExIdle /\ StIdle /\ SgIdle /\ TagIdle /\ EnvIdle /\ IuIdle /\ VmIdle

SpecCron == InitCron /\ [][CronNext]_vars

\* The SQL job as NewSQLJobCtl leaves it: any SQL text, no results yet.
SQLInit ==
    /\ sqlText \in SQLTexts
    /\ sqlJob = [Status |-> "", Error |-> NoErr]
    /\ sqlResults = <<>>
    /\ sqlPc = "start"
    /\ sqlIdx = 0
    /\ sqlDB = "none"
    /\ sqlExecLog = <<>>
    /\ sqlCleaned = FALSE

SQLNext ==
    \/ SQLRunStart
    \/ SQLFindInstance
    \/ SQLOpen
    \/ SQLExecStatement
    \/ SQLRunPassed
    \/ SQLClean

InitSQL == SQLInit /\ CronIdle /\ KVIdle /\ RepoIdle /\ WfIdle /\ PsIdle /\ ExIdle /\ StIdle /\ SgIdle /\ TagIdle /\ EnvIdle /\ IuIdle /\ VmIdle

SpecSQL == InitSQL /\ [][SQLNext]_vars

KVInit ==
    /\ kvInput \in SeqsUpTo(InputKVs, MaxKVs)
    /\ kvOrigin \in SeqsUpTo(OriginKVs, MaxKVs)
    /\ kvResp = <<>>
    /\ kvPc = "start"

KVNext ==
    \/ RenderKeyVals

InitKeyVals == KVInit /\ CronIdle /\ SQLIdle /\ RepoIdle /\ WfIdle /\ PsIdle /\ ExIdle /\ StIdle /\ SgIdle /\ TagIdle /\ EnvIdle /\ IuIdle /\ VmIdle

SpecKeyVals == InitKeyVals /\ [][KVNext]_vars

\* The arguments of one call: repoInput and repoOrigin stay as they were
\* passed; repoResp and repoInputOut are the lists after the call.
RepoInit ==
    /\ repoInput \in SeqsUpTo(InputRepos, MaxRepos)
    /\ repoOrigin \in SeqsUpTo(OriginRepos, MaxRepos)
    /\ repoKvs \in RepoKVLists
    /\ repoResp = <<>>
    /\ repoInputOut = <<>>
    /\ repoOp = "start"

RepoNext ==
    \/ RenderRepos
    \/ MergeRepos

InitRepos == RepoInit /\ CronIdle /\ SQLIdle /\ KVIdle /\ WfIdle /\ PsIdle /\ ExIdle /\ StIdle /\ SgIdle /\ TagIdle /\ EnvIdle /\ IuIdle /\ VmIdle

SpecRepos == InitRepos /\ [][RepoNext]_vars

WfInit ==
    /\ wfJobs \in Workflows
    /\ wfPc = "compile"
    /\ wfIdx = 1
    /\ lintCall = NoLint
    /\ compCall = NoCompile
    /\ wfTasks = <<>>
    /\ globalContext = <<>>
    /\ ctxLog = <<>>

WfNext ==
    \/ LintOneJob
    \/ CompileNextJob
    \/ RunDistributeTask
    \/ RunBuildTask
    \/ RunOtherTask

InitCompile == WfInit /\ CronIdle /\ SQLIdle /\ KVIdle /\ RepoIdle /\ PsIdle /\ ExIdle /\ StIdle /\ SgIdle /\ TagIdle /\ EnvIdle /\ IuIdle /\ VmIdle

SpecCompile == InitCompile /\ [][WfNext]_vars

\* Before the first call the job's spec is what the stored workflow holds.
PsInit ==
    /\ psHist = <<>>
    /\ \/ /\ psCatalog \in PsCatalogs
          /\ psConfig \in PsConfigs
          /\ psSpec = psConfig
          /\ psJobs = <<>>
          /\ psPc = "stored"
       \/ /\ psCatalog = NoCatalog
          /\ psConfig = <<>>
          /\ psSpec = <<>>
          /\ psJobs \in PsWorkflows
          /\ psPc = "dstored"

PsNext ==
    \/ BuildSetPresetCall
    \/ BuildMergeArgsCall
    \/ BuildUpdateCall
    \/ BuildMergeUnchangedCall
    \/ DistributeSetPresetCall

InitPreset == PsInit /\ CronIdle /\ SQLIdle /\ KVIdle /\ RepoIdle /\ WfIdle /\ ExIdle /\ StIdle /\ SgIdle /\ TagIdle /\ EnvIdle /\ IuIdle /\ VmIdle

SpecPreset == InitPreset /\ [][PsNext]_vars

ExInit == ExIdle

ExNext ==
    \/ ExSetup
    \/ ExRun
    \/ ExAfterRun
    \/ ExDeferred

InitExecutor == ExInit /\ CronIdle /\ SQLIdle /\ KVIdle /\ RepoIdle /\ WfIdle /\ PsIdle /\ StIdle /\ SgIdle /\ TagIdle /\ EnvIdle /\ IuIdle /\ VmIdle

SpecExecutor == InitExecutor /\ [][ExNext]_vars

StInit ==
    /\ stSteps \in StepLists
    /\ stHist = [i \in 1..Len(stSteps) |-> <<StatusNotRun>>]
    /\ stLog = <<>>
    /\ stPc = "next"

StNext ==
    \/ StPreRun
    \/ StRun

InitSteps == StInit /\ CronIdle /\ SQLIdle /\ KVIdle /\ RepoIdle /\ WfIdle /\ PsIdle /\ ExIdle /\ SgIdle /\ TagIdle /\ EnvIdle /\ IuIdle /\ VmIdle

SpecSteps == InitSteps /\ [][StNext]_vars

SgInit ==
    /\ sgDef \in UNION {[1..n -> StageDefs] : n \in 1..MaxStages}
    /\ sgJob = [s \in 1..Len(sgDef) |-> [j \in 1..Len(sgDef[s].Jobs) |-> StatusNotRun]]
    /\ sgStage = [s \in 1..Len(sgDef) |-> StatusNotRun]
    /\ sgStarted = {}

SgNext ==
    \/ SgStartStage
    \/ SgStartJob
    \/ SgFinishJob
    \/ SgFinishStage

InitStages == SgInit /\ CronIdle /\ SQLIdle /\ KVIdle /\ RepoIdle /\ WfIdle /\ PsIdle /\ ExIdle /\ StIdle /\ TagIdle /\ EnvIdle /\ IuIdle /\ VmIdle

SpecStages == InitStages /\ [][SgNext]_vars

TagNext ==
    \/ TagTarget
    \/ TagStore

InitTagRule == TagInit /\ CronIdle /\ SQLIdle /\ KVIdle /\ RepoIdle /\ WfIdle /\ PsIdle /\ ExIdle /\ StIdle /\ SgIdle /\ EnvIdle /\ IuIdle /\ VmIdle

SpecTagRule == InitTagRule /\ [][TagNext]_vars

EnvNext ==
    \/ EnvListEnvsFails
    \/ EnvStartPass
    \/ EnvSnapshot
    \/ EnvNextResource
    \/ EnvUpsertResource
    \/ EnvCleanup
    \/ EnvForget

InitEnvResource == EnvInit /\ CronIdle /\ SQLIdle /\ KVIdle /\ RepoIdle /\ WfIdle /\ PsIdle /\ ExIdle /\ StIdle /\ SgIdle /\ TagIdle /\ IuIdle /\ VmIdle

SpecEnvResource == InitEnvResource /\ [][EnvNext]_vars

IuNext ==
    \/ IuEnter
    \/ IuCountUsers
    \/ IuCreateUser
    \/ IuUpdatePrivacySetting
    \/ IuCreateUserRoleBinding

InitInitializeUser == IuInit /\ CronIdle /\ SQLIdle /\ KVIdle /\ RepoIdle /\ WfIdle /\ PsIdle /\ ExIdle /\ StIdle /\ SgIdle /\ TagIdle /\ EnvIdle /\ VmIdle

SpecInitializeUser == InitInitializeUser /\ [][IuNext]_vars

VmNext == VmReportLog

InitVMJobLog == VmInit /\ CronIdle /\ SQLIdle /\ KVIdle /\ RepoIdle /\ WfIdle /\ PsIdle /\ ExIdle /\ StIdle /\ SgIdle /\ TagIdle /\ EnvIdle /\ IuIdle

SpecVMJobLog == InitVMJobLog /\ [][VmNext]_vars

(***************************************************************************)
(* Claims about the cronjob reconciliation.                                *)
(***************************************************************************)
CronSubmittedIDs(items) == {items[i].ID : i \in 1..Len(items)} \ {ZeroID}

CronCreatedIdx(items) == {i \in 1..Len(items) : items[i].ID = ZeroID}

\* The last submitted item carrying the ID: its fields are the ones stored.
CronLastItem(items, id) ==
    items[CHOOSE i \in 1..Len(items) :
              /\ items[i].ID = id
              /\ \A j \in (i + 1)..Len(items) : items[j].ID # id]

\* C6: when UpdateCronjob returns without error, every record that existed
\* and whose ID a submitted item carries holds that item's fields, every
\* submitted item without an ID has one new record of its own, the records
\* of the parent whose ID no submitted item carries are gone and nothing
\* else is, and the returned delete list is exactly the set of removed IDs.
C6_ReconcileUpdatesCreatesDeletes ==
    (cronCall.kind = "enabled" /\ cronCall.upd = "ok") =>
        LET pre == cronCall.pre
            post == cronColl
            name == cronCall.name
            items == cronCall.items
            jl == cronCall.jobList
            submitted == CronSubmittedIDs(items)
            deleted == CronList(pre, name, WorkflowCronjob) \ submitted
            createdIDs == {jl[i].ID : i \in CronCreatedIdx(items)}
        IN  /\ \A id \in DOMAIN pre \cap submitted :
                  /\ id \in DOMAIN post
                  /\ post[id] = CronJobOf(name, WorkflowCronjob, CronLastItem(items, id))
            /\ \A i \in CronCreatedIdx(items) :
                  /\ jl[i].ID \notin DOMAIN pre
                  /\ jl[i].ID \in DOMAIN post
                  /\ post[jl[i].ID] = CronJobOf(name, WorkflowCronjob, items[i])
            /\ Cardinality(createdIDs) = Cardinality(CronCreatedIdx(items))
            /\ DOMAIN post = (DOMAIN pre \ deleted) \cup createdIDs
            /\ cronCall.deleteList = deleted

\* The scenario of C6: the parent has two records, A and B; the submitted
\* items are A and a new one; the call succeeds and returns {B}.
C6_Witness ==
    /\ cronCall.kind = "enabled"
    /\ cronCall.upd = "ok"
    /\ Cardinality(CronList(cronCall.pre, cronCall.name, WorkflowCronjob)) = 2
    /\ Len(cronCall.items) = 2
    /\ cronCall.items[1].ID \in CronList(cronCall.pre, cronCall.name, WorkflowCronjob)
    /\ cronCall.items[2].ID = ZeroID
    /\ Cardinality(cronCall.deleteList) = 1
    /\ cronCall.deleteList \subseteq DOMAIN cronCall.pre
    /\ Cardinality(DOMAIN cronColl) = Cardinality(DOMAIN cronCall.pre)

\* C7: every change HandleCronjob makes to the cronjob collection is
\* published on the cron queue, in a message carrying the call's job list
\* and delete list.
C7_EveryStoreChangePublished ==
    (cronCall.kind # "none" /\ cronColl # cronCall.pre) =>
        /\ cronCall.published
        /\ msgQueue # <<>> =>
              /\ msgQueue[1].QueueType = TopicCronjob
              /\ msgQueue[1].Payload.DeleteList = cronCall.deleteList
              /\ msgQueue[1].Payload.JobList = cronCall.jobList

\* C24: when HandleCronjob returns the error of the reconciliation, the
\* cronjob collection is as it was before the call: no record was created,
\* updated or deleted.
C24_AllOrNothingOnFailure ==
    (cronCall.kind = "enabled" /\ cronCall.err = "update") => cronColl = cronCall.pre

\* C29: UpdateCronjob for a parent leaves the records of every other parent
\* as they were, whatever IDs the submitted items carry.
C29_OtherParentsUntouched ==
    cronCall.kind = "enabled" =>
        \A id \in DOMAIN cronCall.pre :
            cronCall.pre[id].Name # cronCall.name =>
                (id \in DOMAIN cronColl /\ cronColl[id] = cronCall.pre[id])

(***************************************************************************)
(* Claims about the SQL job.                                               *)
(***************************************************************************)
\* The SQL text "<stmt1>; <stmt2>;".
ScenarioSQL == <<"a", ";", " ", "b", ";">>

RECURSIVE WithoutSpaces(_)
WithoutSpaces(s) ==
    IF s = <<>> THEN <<>>
    ELSE IF Head(s) = " " THEN WithoutSpaces(Tail(s))
    ELSE <<Head(s)>> \o WithoutSpaces(Tail(s))

\* The statements the database was asked to execute, each followed by its
\* semicolon, one after the other.
RECURSIVE ExecutedText(_)
ExecutedText(log) ==
    IF log = <<>> THEN <<>>
    ELSE Head(log).SQL \o ExecutedText(Tail(log))

IsPrefix(s, t) == Len(s) <= Len(t) /\ s = SubSeq(t, 1, Len(s))

\* C4: with the text "<stmt1>; <stmt2>;", when the first statement succeeds
\* and the second fails, the job has executed exactly the two statements in
\* order, the first result is success with the affected rows the database
\* reported, the second result is failed, and the job is Failed.
C4_TwoStatementsFirstOkSecondFails ==
    (/\ sqlPc = "done"
     /\ sqlText = ScenarioSQL
     /\ sqlExecLog # <<>>
     /\ sqlExecLog[1].outcome = "ok") =>
        /\ Len(sqlExecLog) = 2
        /\ sqlExecLog[1].SQL = <<"a", ";">>
        /\ sqlExecLog[2].SQL = <<"b", ";">>
        /\ Len(sqlResults) = 2
        /\ sqlResults[1].SQL = sqlExecLog[1].SQL
        /\ sqlResults[1].Status = SQLExecStatusSuccess
        /\ sqlResults[1].RowsAffected = sqlExecLog[1].rows
        /\ sqlExecLog[2].outcome = "execErr" =>
              /\ sqlResults[2].SQL = sqlExecLog[2].SQL
              /\ sqlResults[2].Status = SQLExecStatusFailed
              /\ sqlJob.Status = StatusFailed

C4_Witness ==
    /\ sqlPc = "done"
    /\ sqlText = ScenarioSQL
    /\ Len(sqlExecLog) = 2
    /\ sqlExecLog[1].outcome = "ok"
    /\ sqlExecLog[1].rows = 1
    /\ sqlExecLog[2].outcome = "execErr"
    /\ sqlResults[1].RowsAffected = 1
    /\ sqlResults[2].Status = SQLExecStatusFailed
    /\ sqlJob.Status = StatusFailed

\* C5: the statements are executed one at a time in the order of the text;
\* as soon as one fails nothing after it is executed, and the job ends
\* Failed with an error that names the failing statement, never Passed.
C5_AbortOnFirstFailure ==
    /\ IsPrefix(WithoutSpaces(ExecutedText(sqlExecLog)), WithoutSpaces(sqlText))
    /\ Len(sqlExecLog) <= Len(sqlResults)
    /\ \A i \in 1..Len(sqlExecLog) :
          /\ sqlExecLog[i].SQL = sqlResults[i].SQL
          /\ i < Len(sqlExecLog) => sqlExecLog[i].outcome = "ok"
    /\ \A i \in 1..Len(sqlResults) :
          i > Len(sqlExecLog) => sqlResults[i].Status = SQLExecStatusNotExec
    /\ \A i \in 1..Len(sqlExecLog) :
          sqlExecLog[i].outcome = "execErr" =>
              /\ sqlPc = "done"
              /\ sqlResults[i].Status = SQLExecStatusFailed
              /\ sqlJob.Status = StatusFailed
              /\ sqlJob.Error = [kind |-> "exec", sql |-> sqlExecLog[i].SQL]
    /\ sqlJob.Status = StatusPassed =>
          /\ Len(sqlExecLog) = Len(sqlResults)
          /\ \A i \in 1..Len(sqlExecLog) : sqlExecLog[i].outcome = "ok"

C5_Witness ==
    /\ sqlPc = "done"
    /\ Len(sqlResults) = 3
    /\ Len(sqlExecLog) = 2
    /\ sqlExecLog[1].outcome = "ok"
    /\ sqlExecLog[2].outcome = "execErr"
    /\ sqlResults[3].Status = SQLExecStatusNotExec
    /\ sqlJob.Status = StatusFailed

\* The last call the database received.
LastExec == sqlExecLog[Len(sqlExecLog)]

\* C16: after Clean has been called on the SQL job controller, the
\* database handle the job opened is no longer held, whether the job
\* passed or failed.
C16_NothingHeldAfterClean ==
    sqlCleaned =>
        /\ sqlJob.Status \in {StatusPassed, StatusFailed}
        /\ sqlDB # "open"
        /\ sqlExecLog # <<>> => sqlDB = "closed"

C16_Witness ==
    /\ sqlCleaned
    /\ sqlJob.Status = StatusFailed
    /\ sqlExecLog # <<>>
    /\ LastExec.outcome = "execErr"
    /\ sqlDB = "closed"

\* C20: Run sets the job Running before any work is done, and when it has
\* returned the job is Passed or Failed, never Running: Passed only if
\* every statement was executed successfully, and Failed with a message
\* naming the cause when the instance lookup fails, the type is not
\* supported, the connection fails or a statement fails.
C20_RunEndsPassedOrFailed ==
    /\ sqlPc \in {"find", "open", "exec"} =>
          /\ sqlJob.Status = StatusRunning
          /\ sqlJob.Error = NoErr
    /\ (sqlDB # "none" \/ sqlExecLog # <<>>) =>
          sqlJob.Status \in {StatusRunning, StatusPassed, StatusFailed}
    /\ sqlPc = "done" =>
          \/ /\ sqlJob.Status = StatusPassed
             /\ sqlJob.Error = NoErr
             /\ Len(sqlExecLog) = Len(sqlResults)
             /\ \A i \in 1..Len(sqlResults) :
                   /\ sqlResults[i].Status = SQLExecStatusSuccess
                   /\ sqlExecLog[i].outcome = "ok"
          \/ /\ sqlJob.Status = StatusFailed
             /\ sqlJob.Error.kind \in {"find", "invalid db type", "connect"}
             /\ sqlDB = "none"
             /\ sqlExecLog = <<>>
          \/ /\ sqlJob.Status = StatusFailed
             /\ sqlExecLog # <<>>
             /\ LastExec.outcome = "execErr"
             /\ sqlJob.Error = [kind |-> "exec", sql |-> LastExec.SQL]
          \/ /\ sqlJob.Status = StatusFailed
             /\ sqlExecLog # <<>>
             /\ LastExec.outcome = "rowsErr"
             /\ sqlJob.Error = [kind |-> "rows"]

C20_Witness ==
    /\ sqlPc = "done"
    /\ sqlJob.Status = StatusFailed
    /\ sqlJob.Error = [kind |-> "invalid db type"]
    /\ sqlDB = "none"

(***************************************************************************)
(* Claims about renderKeyVals.                                             *)
(***************************************************************************)
\* The value of the last input key-value with the key, or the default.
RECURSIVE LastValueFor(_, _, _)
LastValueFor(key, input, default) ==
    IF input = <<>> THEN default
    ELSE IF input[Len(input)].Key = key THEN input[Len(input)].Value
    ELSE LastValueFor(key, SubSeq(input, 1, Len(input) - 1), default)

\* C9: renderKeyVals returns one key-value per template key-value, in the
\* template's order, with the template's key, type, credential flag and
\* choice options; only the value may come from the input (the last input
\* key-value with the same key), whatever keys, types and flags the input
\* carries.
C9_RenderKeyValsKeepsTemplateShape ==
    kvPc = "done" =>
        /\ Len(kvResp) = Len(kvOrigin)
        /\ \A i \in 1..Len(kvResp) :
              /\ kvResp[i].Key = kvOrigin[i].Key
              /\ kvResp[i].Type = kvOrigin[i].Type
              /\ kvResp[i].IsCredential = kvOrigin[i].IsCredential
              /\ kvResp[i].ChoiceOption = kvOrigin[i].ChoiceOption
              /\ kvResp[i].Value =
                     LastValueFor(kvOrigin[i].Key, kvInput, kvOrigin[i].Value)

C9_Witness ==
    /\ kvPc = "done"
    /\ Len(kvOrigin) = 2
    /\ Len(kvInput) = 2
    /\ kvOrigin[1].Key = "k1" /\ kvOrigin[1].IsCredential /\ kvOrigin[1].Type = "choice"
    /\ kvOrigin[2].Key = "k2"
    /\ kvInput[1].Key = "k1" /\ ~kvInput[1].IsCredential /\ kvInput[1].Type = "string"
    /\ kvInput[2].Key = "k3"
    /\ kvResp[1].Value = kvInput[1].Value
    /\ kvResp[1].IsCredential
    /\ kvResp[2].Value = "v0"

(***************************************************************************)
(* Claims about renderRepos.                                               *)
(***************************************************************************)
\* The key (source, namespace, repoName) of a repo, its namespace
\* defaulting to its owner.
SourceNamespaceName(repo) ==
    <<repo.Source,
      IF repo.RepoNamespace = "" THEN repo.RepoOwner ELSE repo.RepoNamespace,
      repo.RepoName>>

\* C10: renderRepos matches an input repo to a canonical repo by (source,
\* namespace, repoName); a matched repo of the result takes its branch, tag,
\* PR and PRs from the input and every other field from the canonical repo,
\* and an unmatched repo of the result is the canonical repo.
C10_RenderReposOverlaysSelectionOnly ==
    repoOp = "render" =>
        /\ Len(repoResp) = Len(repoOrigin)
        /\ \A i \in 1..Len(repoResp) :
              LET hits == {j \in 1..Len(repoInput) :
                              SourceNamespaceName(repoInput[j])
                                  = SourceNamespaceName(repoOrigin[i])}
              IN  IF hits = {} THEN repoResp[i] = repoOrigin[i]
                  ELSE \E j \in hits :
                          repoResp[i] = [repoOrigin[i] EXCEPT
                                            !.Branch = repoInput[j].Branch,
                                            !.Tag = repoInput[j].Tag,
                                            !.PR = repoInput[j].PR,
                                            !.PRs = repoInput[j].PRs]

\* The input repos renderRepos matches to a canonical repo, and the input
\* repos mergeRepos matches to a template repo.
SameOwnerAndName(input, repo) ==
    {j \in 1..Len(input) :
        input[j].RepoName = repo.RepoName /\ input[j].RepoOwner = repo.RepoOwner}

SameSourceNamespaceName(input, repo) ==
    {j \in 1..Len(input) :
        SourceNamespaceName(input[j]) = SourceNamespaceName(repo)}

Last(hits) == CHOOSE j \in hits : \A k \in hits : k <= j

\* A checkout path with the references to the variables of kvs resolved.
ResolvedPath(path, kvs) ==
    [t \in 1..Len(path) |->
        IF \E k \in 1..Len(kvs) : path[t] = "$k1" /\ kvs[k].Key = "k1"
        THEN kvs[CHOOSE k \in 1..Len(kvs) : kvs[k].Key = "k1"].Value
        ELSE path[t]]

\* C10 (amended): renderRepos matches an input repo to a canonical repo by
\* (RepoOwner, RepoName) and puts the last matching input repo in the
\* canonical repo's place, all its fields the input's, with its checkout
\* path's variables resolved and an empty remote name set to "origin"; an
\* unmatched canonical repo is returned as it is. It is mergeRepos that
\* matches by (source, namespace, repoName), the namespace defaulting to the
\* owner, and that takes only branch, tag, PR, PRs and filter regexp from the
\* matching custom repo, every other field being the template's.
C10_RenderReplacesMergeOverlays ==
    /\ repoOp = "render" =>
          /\ Len(repoResp) = Len(repoOrigin)
          /\ \A i \in 1..Len(repoResp) :
                LET hits == SameOwnerAndName(repoInput, repoOrigin[i])
                IN  IF hits = {} THEN repoResp[i] = repoOrigin[i]
                    ELSE LET in == repoInput[Last(hits)]
                         IN  repoResp[i] =
                                 [in EXCEPT
                                     !.CheckoutPath = ResolvedPath(@, repoKvs),
                                     !.RemoteName = IF @ = "" THEN "origin" ELSE @]
    /\ repoOp = "merge" =>
          /\ Len(repoResp) = Len(repoOrigin)
          /\ \A i \in 1..Len(repoResp) :
                LET hits == SameSourceNamespaceName(repoInput, repoOrigin[i])
                    tmpl == [repoOrigin[i] EXCEPT
                                !.RepoNamespace = IF @ = "" THEN repoOrigin[i].RepoOwner
                                                  ELSE @]
                IN  IF hits = {} THEN repoResp[i] = tmpl
                    ELSE LET cv == repoInput[Last(hits)]
                         IN  repoResp[i] =
                                 [tmpl EXCEPT !.Branch = cv.Branch, !.Tag = cv.Tag,
                                              !.PR = cv.PR, !.PRs = cv.PRs,
                                              !.FilterRegexp = cv.FilterRegexp]

\* A canonical github repo o1/r1 and an input gitlab repo o1/r1 of another
\* namespace: renderRepos returns the input repo in its place.
C10_Witness ==
    /\ repoOp = "render"
    /\ Len(repoOrigin) = 2
    /\ Len(repoInput) = 1
    /\ repoOrigin[1].RepoName = "r1" /\ repoOrigin[1].RepoNamespace = "n1"
    /\ repoOrigin[2].RepoName = "r2"
    /\ repoInput[1].Source = "gitlab" /\ repoInput[1].RepoOwner = "o1"
    /\ repoInput[1].RepoNamespace = "n2"
    /\ repoKvs # <<>>
    /\ repoResp[1].Source = "gitlab"
    /\ repoResp[1].CodehostID = 2
    /\ repoResp[1].RemoteName = "origin"
    /\ repoResp[1].CheckoutPath = <<"w", "src">>
    /\ repoResp[2] = repoOrigin[2]

(***************************************************************************)
(* Claims about the job compiler.                                          *)
(***************************************************************************)
PairwiseDistinctKeys(tasks) ==
    \A i, k \in 1..Len(tasks) : i # k => tasks[i].Key # tasks[k].Key

\* C1: the JobTasks compiled for one workflow task have pairwise distinct
\* keys, and so have the JobTasks one ToJobs call returns.
C1_JobTaskKeysDistinct ==
    /\ PairwiseDistinctKeys(wfTasks)
    /\ PairwiseDistinctKeys(compCall.tasks)

\* The job of the workflow with the name.
JobNamed(name) == wfJobs[JobIndex(wfJobs, name)]

RefersEarlierJob(job) ==
    /\ JobIndex(wfJobs, job.Spec.JobName) # 0
    /\ JobIndex(wfJobs, job.Spec.JobName) < JobIndex(wfJobs, job.Name)

\* C2: LintJob of a job whose source is from-job fails when the job it
\* refers to comes after it in stage order, is the job itself or does not
\* exist, and succeeds when that job comes earlier, in the same stage or in
\* an earlier one.
C2_LintFollowsStageOrder ==
    (lintCall.job # "" /\ JobNamed(lintCall.job).Spec.Source = SourceFromJob) =>
        (lintCall.err = "" <=> RefersEarlierJob(JobNamed(lintCall.job)))

\* C3: ToJobs of a job whose source is from-job and whose upstream job is
\* not in the workflow returns an error and no JobTask.
C3_MissingUpstreamNoTask ==
    (/\ compCall.job # ""
     /\ JobNamed(compCall.job).Spec.Source = SourceFromJob
     /\ JobIndex(wfJobs, JobNamed(compCall.job).Spec.JobName) = 0) =>
        /\ compCall.err # ""
        /\ compCall.tasks = <<>>

\* The writes of the job for the service module before position p of the
\* log.
WritesBefore(p, job, serviceName, serviceModule) ==
    {q \in 1..(p - 1) :
        /\ ctxLog[q].op = "write"
        /\ ctxLog[q].job = job
        /\ ctxLog[q].ServiceName = serviceName
        /\ ctxLog[q].ServiceModule = serviceModule}

\* C8: the source image of a target of a compiled from-job distribute job
\* is the key under which AfterRun of the referred job writes the image of
\* the same service module; and when the referred job has written it, the
\* downstream job reads exactly the value written last.
C8_AfterRunKeyIsReferenceKey ==
    /\ \A i \in 1..Len(wfTasks) :
          (wfTasks[i].JobType = JobZadigDistributeImage /\ wfTasks[i].FromJob # "") =>
              \A k \in 1..Len(wfTasks[i].Targets) :
                  wfTasks[i].Targets[k].SourceImage =
                      <<"{{.job.", wfTasks[i].FromJob, ".",
                        wfTasks[i].Targets[k].ServiceName, ".",
                        wfTasks[i].Targets[k].ServiceModule, ".output.", "IMAGE", "}}">>
    /\ \A p \in 1..Len(ctxLog) :
          ctxLog[p].op = "write" =>
              ctxLog[p].key = <<"{{.job.", ctxLog[p].job, ".", ctxLog[p].ServiceName, ".",
                                ctxLog[p].ServiceModule, ".output.", "IMAGE", "}}">>
    /\ \A p \in 1..Len(ctxLog) :
          (ctxLog[p].op = "read" /\ ctxLog[p].from # "") =>
              LET ws == WritesBefore(p, ctxLog[p].from, ctxLog[p].ServiceName,
                                     ctxLog[p].ServiceModule)
              IN  ws # {} =>
                      ctxLog[p].value = ctxLog[Last(ws)].value

\* A distribute job j2 that takes its images from the distribute job j1
\* reads the image j1's AfterRun wrote.
C8_Witness ==
    \E p \in 1..Len(ctxLog) :
        /\ ctxLog[p].op = "read"
        /\ ctxLog[p].job = "j2"
        /\ ctxLog[p].from = "j1"
        /\ JobNamed("j1").Spec.JobType = JobZadigDistributeImage
        /\ ctxLog[p].value = <<"target-registry/", "j1", "/", ctxLog[p].ServiceName,
                               "/", ctxLog[p].ServiceModule>>
        /\ \E q \in 1..(p - 1) :
              /\ ctxLog[q].op = "write"
              /\ ctxLog[q].job = "j1"
              /\ ctxLog[q].key = ctxLog[p].key

\* C17: every compiled JobTask carries a timeout, and for a distribute
\* job whose spec leaves the timeout unset the compiled timeout is 10
\* minutes, in the JobTask and in the properties of the job handed to the
\* executing infrastructure.
C17_UnsetTimeoutCompiledAsTen ==
    \A i \in 1..Len(wfTasks) :
        /\ wfTasks[i].Timeout > 0
        /\ wfTasks[i].PropertiesTimeout = wfTasks[i].Timeout
        /\ (/\ wfTasks[i].JobType = JobZadigDistributeImage
            /\ JobNamed(wfTasks[i].Name).Spec.Timeout = 0) =>
               /\ wfTasks[i].Timeout = DistributeTimeout
               /\ wfTasks[i].PropertiesTimeout = DistributeTimeout

\* C21: within one task execution every key of the global context is
\* written by at most one JobTask: two writes to the same key come from the
\* same task.
C21_OneWriterPerKey ==
    \A p, q \in 1..Len(ctxLog) :
        (ctxLog[p].op = "write" /\ ctxLog[q].op = "write" /\ ctxLog[p].key = ctxLog[q].key)
            => ctxLog[p].task = ctxLog[q].task

\* C22: for the spec of a build or scanning job that ToJobs compiles, every
\* key GetOutPuts returns is the reference to a declared output of one of
\* the emitted JobTasks, under that task's key, and every declared output
\* of every emitted JobTask is among the returned keys.
C22_OutputsMatchTasks ==
    (/\ compCall.job # ""
     /\ compCall.err = ""
     /\ JobNamed(compCall.job).Spec.JobType \in {JobZadigBuild, JobZadigScanning})
    => /\ \A key \in compCall.outputs :
             \E i \in 1..Len(compCall.tasks) :
                 key \in getOutputKey(compCall.tasks[i].Key, DeclaredOutputs(compCall.tasks[i]))
       /\ \A i \in 1..Len(compCall.tasks) :
             getOutputKey(compCall.tasks[i].Key, DeclaredOutputs(compCall.tasks[i]))
                 \subseteq compCall.outputs

(***************************************************************************)
(* Claims about SetPreset, MergeArgs and UpdateWithLatestSetting.          *)
(***************************************************************************)
\* C11: SetPreset called twice in a row on a stored spec, the catalog
\* unchanged, leaves the spec the first call left.
C11_SetPresetIdempotent ==
    \A i \in 1..(Len(psHist) - 1) :
        (psHist[i].op = "SetPreset" /\ psHist[i + 1].op = "SetPreset") =>
            psHist[i + 1].spec = psHist[i].spec

\* The values of a spec the user sees and sets: the services picked, their
\* repositories and their variables. A repository without a namespace is
\* in the namespace of its owner (Repository.GetRepoNamespace).
Effective(builds) ==
    [k \in 1..Len(builds) |->
        [ServiceName |-> builds[k].ServiceName,
         ServiceModule |-> builds[k].ServiceModule,
         Repos |-> [r \in 1..Len(builds[k].Repos) |->
                       WithNamespace(builds[k].Repos[r])],
         KeyVals |-> builds[k].KeyVals]]

C15_OutputsSurviveFailedRun ==
    (exPc = "returned" /\ exRunErr # "") =>
        /\ exAfterRun.called
        /\ exErr = exRunErr
        /\ exAfterRun.err = "" => exBytes = exProduced
        /\ exCM.Updated => (exCM.Result = JobFail /\ exCM.Outputs = exBytes)

C15_Witness ==
    /\ exPc = "returned"
    /\ exRunErr # ""
    /\ exProduced = {"IMAGE", "COMMITID"}
    /\ exCM = [Result |-> JobFail, Outputs |-> {"IMAGE", "COMMITID"}, Updated |-> TRUE]

\* C25: once NewJob has returned the job, Execute does not return before
\* the result is in the ConfigMap: JobSuccess when Run and AfterRun both
\* returned nil, JobFail otherwise.
C25_ResultAlwaysWritten ==
    (exPc = "returned" /\ exErr # "new job") =>
        /\ exCM.Updated
        /\ exCM.Result = IF exRunErr = "" /\ exAfterRun.err = "" THEN JobSuccess ELSE JobFail

(***************************************************************************)
(* Claims about the steps of a JobTask.                                    *)
(***************************************************************************)
\* The PreRun of step i returned an error.
PreRunFailed(i) ==
    \E k \in 1..Len(stLog) :
        stLog[k].op = "PreRun" /\ stLog[k].step = i /\ stLog[k].err # ""

\* The Run of step i was invoked.
RunInvoked(i) ==
    \E k \in 1..Len(stLog) : stLog[k].op = "Run" /\ stLog[k].step = i

\* C13: a step's status moves NotRun -> Running -> one of Passed, Failed,
\* Timeout, Cancelled; a step whose PreRun returns an error (a distribute
\* step with an empty source image) goes from NotRun to Failed, is never
\* Running, and its Run is not invoked.
C13_StepStatusPath ==
    \A i \in 1..Len(stSteps) :
        LET h == stHist[i]
        IN  /\ h[1] = StatusNotRun
            /\ Len(h) <= 3
            /\ Len(h) = 3 => (h[2] = StatusRunning /\ h[3] \in RunResults)
            /\ Len(h) = 2 => (h[2] = StatusRunning \/ (h[2] = StatusFailed /\ PreRunFailed(i)))
            /\ PreRunFailed(i) => (h = <<StatusNotRun, StatusFailed>> /\ ~RunInvoked(i))
            /\ (/\ stSteps[i].StepType = "StepDistributeImage"
                /\ \E k \in 1..Len(stSteps[i].Targets) : stSteps[i].Targets[k].SourceImage = ""
                /\ Len(h) > 1)
               => (h = <<StatusNotRun, StatusFailed>> /\ ~RunInvoked(i))

C13_Witness ==
    /\ stSteps = DistributeSteps(<<[SourceImage |-> "img"], [SourceImage |-> ""]>>)
    /\ stHist = <<(<<StatusNotRun, StatusFailed>>)>>
    /\ stLog = <<[op |-> "PreRun", step |-> 1, err |-> "source image is empty"]>>
    /\ stPc = "done"

C18_StopPolicyCancelsUnstarted ==
    \A s \in 1..Len(sgDef) :
        (/\ sgDef[s].Parallel
         /\ Len(sgDef[s].Jobs) = 3
         /\ sgDef[s].Jobs[2].ErrorPolicy = "stop"
         /\ sgJob[s][2] = StatusFailed)
        => /\ \A k \in {1, 3} :
                 IF <<s, k>> \in sgStarted
                 THEN sgJob[s][k] \in {StatusRunning, StatusPassed, StatusFailed}
                 ELSE sgJob[s][k] = StatusCancelled
           /\ sgStage[s] \in {StatusRunning, StatusFailed}

C18_Witness ==
    /\ sgDef[1].Parallel
    /\ Len(sgDef[1].Jobs) = 3
    /\ sgDef[1].Jobs[2].ErrorPolicy = "stop"
    /\ sgStarted = {<<1, 1>>, <<1, 2>>}
    /\ sgJob[1] = <<StatusPassed, StatusFailed, StatusCancelled>>
    /\ sgStage[1] = StatusFailed

\* C19: a job of a stage has started only if the stage before it has
\* reached a terminal status, and a stage is running only then.
C19_StagesInDeclaredOrder ==
    \A s \in 2..Len(sgDef) :
        (sgStage[s] # StatusNotRun \/ \E j \in SgJobs(s) : sgJob[s][j] # StatusNotRun \/ <<s, j>> \in sgStarted)
        => /\ sgStage[s - 1] \in {StatusPassed, StatusFailed}
           /\ \A j \in SgJobs(s - 1) : sgJob[s - 1][j] \in SgTerminal

C19_Witness ==
    /\ Len(sgDef) = 2
    /\ sgStage[1] = StatusPassed
    /\ sgStage[2] = StatusRunning
    /\ <<2, 1>> \in sgStarted
    /\ sgJob[2][1] = StatusRunning

(***************************************************************************)
(* Claims about the target image tag rule.                                 *)
(***************************************************************************)
\* Both placeholders replaced, one replacement applied to the result of
\* the other.
RuleTagChained(rule, ref) ==
    ReplaceAll(ReplaceAll(rule, PreBuildImageTagVariable, ref), PreJobImageTagVariable, ref)

\* C30: when the target image tag rule is enabled, the tag of every compiled
\* target is the rule with both placeholders replaced by the reference to the
\* upstream job's imageTag output of the target, and holds no placeholder.
C30_BothPlaceholdersReplaced ==
    (tagPc = "stored" /\ tagSpec.EnableTargetImageTagRule) =>
        \A k \in 1..Len(tagSpec.Targets) :
            LET target == tagSpec.Targets[k]
            IN  /\ target.TargetTag =
                      RuleTagChained(tagSpec.TargetImageTagRule,
                                     ImageTagRef(tagSpec.JobName, target))
                /\ PreBuildImageTagVariable \notin Range(target.TargetTag)
                /\ PreJobImageTagVariable \notin Range(target.TargetTag)

(***************************************************************************)
(* Claims about the env resource sync schedulers.                          *)
(***************************************************************************)
\* A pass waits for the mutex, which nobody is left to release.
EnvBlocked == envPc \in {"rlock", "lock", "cleanup lock"} /\ envMutex = "locked"

\* C23: every pass of UpsertEnvResourceSyncScheduler returns with
\* lastEnvResourceSchedulerDataRWMutex released, and no pass blocks forever
\* acquiring it, also when a listed resource has the CreateTime it had in the
\* previous pass.
C23_MutexReleased ==
    /\ envPc = "idle" => envMutex = "unlocked"
    /\ ~EnvBlocked

C27_AtMostOneInitialization ==
    /\ Cardinality(DOMAIN iuUsers) <= 1
    /\ Cardinality(iuBindings) <= 1
    /\ \A c \in Callers :
          iuCall[c].TotalUser > 0 =>
              /\ iuCall[c].pc = "returned"
              /\ iuCall[c].err # ""
              /\ iuCall[c].Uid = 0

(***************************************************************************)
(* Claims about the log of a VM job.                                       *)
(***************************************************************************)
\* C28: after savaVMJobLog returns for a job that reports Running the job's
\* status key is set, and after it returns for a job that reports a finished
\* status the key is not set, whether or not the upload of the log succeeded.
C28_StatusKeyFollowsJob ==
    vmCall.id # "" =>
        /\ vmCall.Status = StatusRunning => vmCall.id \in vmStatusKeys
        /\ JobFinished(vmCall.Status) => vmCall.id \notin vmStatusKeys

====
